---- MODULE Spec2Model ----
(***************************************************************************)
(* Model of the tool functions of the repository.                          *)
(*                                                                         *)
(* Python strings are modelled by what they hold.  A single-line string is *)
(* a sequence of one-character strings.  A string that may hold line       *)
(* breaks (the module file, a function block, a body, the YAML snippet) is *)
(* the sequence of its pieces between the "\n" characters, that is         *)
(* s.split("\n"): it is never empty, and its last piece is empty exactly   *)
(* when the string ends with "\n".  Names, types, descriptions and default *)
(* literals are single-line strings.                                       *)
(***************************************************************************)
EXTENDS Integers, Sequences, FiniteSets, TLC

----------------------------------------------------------------------------
(* Characters and elementary string operations (Python str methods).       *)

LowerLetters == <<"a","b","c","d","e","f","g","h","i","j","k","l","m","n","o","p","q","r","s","t","u","v","w","x","y","z">>
UpperLetters == <<"A","B","C","D","E","F","G","H","I","J","K","L","M","N","O","P","Q","R","S","T","U","V","W","X","Y","Z">>
Digits == <<"0","1","2","3","4","5","6","7","8","9">>

Range(s) == {s[i] : i \in DOMAIN s}

LowerSet == Range(LowerLetters)
UpperSet == Range(UpperLetters)
DigitSet == Range(Digits)

IsLower(c) == c \in LowerSet
IsUpper(c) == c \in UpperSet
IsDigit(c) == c \in DigitSet
\* \s of the re module, on the characters a single-line piece can hold
IsSpace(c) == c \in {" ", "\t", "\r"}

\* str.lower() on one character
LowerChar(c) ==
    IF IsUpper(c)
    THEN LowerLetters[CHOOSE i \in DOMAIN UpperLetters : UpperLetters[i] = c]
    ELSE c

\* str.lower()
Lower(s) == [i \in DOMAIN s |-> LowerChar(s[i])]

\* str.strip(chars): drop the leading and trailing characters that are in cs
StripChars(s, cs) ==
    LET keep == {i \in DOMAIN s : s[i] \notin cs}
    IN  IF keep = {} THEN <<>>
        ELSE LET lo == CHOOSE i \in keep : \A j \in keep : i <= j
                 hi == CHOOSE i \in keep : \A j \in keep : j <= i
             IN  SubSeq(s, lo, hi)

\* str.strip()
Strip(s) == StripChars(s, {" ", "\t", "\r"})

\* s.startswith(p)
StartsWith(s, p) == Len(s) >= Len(p) /\ SubSeq(s, 1, Len(p)) = p

\* the suffix of s from position i on
From(s, i) == SubSeq(s, i, Len(s))

\* the first position >= i of s that holds no white space (Len(s)+1 if none)
SkipSpace(s, i) ==
    LET rest == {j \in i..Len(s) : ~IsSpace(s[j])}
    IN  IF rest = {} THEN Len(s) + 1
        ELSE CHOOSE j \in rest : \A k \in rest : j <= k

\* a + b for strings held as pieces: the last piece of a and the first of b join
Concat(a, b) ==
    SubSeq(a, 1, Len(a) - 1) \o <<a[Len(a)] \o b[1]>> \o Tail(b)

\* "\n".join(parts), each part a string held as pieces
RECURSIVE JoinLines(_)
JoinLines(parts) ==
    IF parts = <<>> THEN <<<<>>>>
    ELSE IF Len(parts) = 1 THEN parts[1]
    ELSE parts[1] \o JoinLines(Tail(parts))

\* str.splitlines() (line breaks are "\n" only): the pieces, without the empty
\* piece that follows a final "\n"; "" has no lines
SplitLines(s) ==
    IF s[Len(s)] = <<>> THEN SubSeq(s, 1, Len(s) - 1) ELSE s

\* s.endswith("\n")
EndsWithNewline(s) == Len(s) >= 2 /\ s[Len(s)] = <<>>

\* a lookup that misses every key
Get_default_only(d, key, default) == default

\* dict.get(key, default); a dict is a record, an absent key an absent field
Get(d, key, default) == IF key \in DOMAIN d THEN d[key] ELSE default

\* repr() of a non-negative int
RECURSIVE IntRepr(_)
IntRepr(n) ==
    IF n < 10 THEN <<Digits[n + 1]>>
    ELSE IntRepr(n \div 10) \o <<Digits[(n % 10) + 1]>>

\* repr() of a parameter default: an int ([int |-> n]) prints as its digits, a
\* str ([str |-> s], s without quotes and escapes) as 's'
Repr(v) ==
    IF "int" \in DOMAIN v THEN IntRepr(v.int) ELSE <<"'">> \o v.str \o <<"'">>

----------------------------------------------------------------------------
(* Utilities of agent_scaffolder/tools.py                                  *)

\* _VALID_IDENT: ^[A-Za-z_][A-Za-z0-9_]*$
_VALID_IDENT(s) ==
    /\ Len(s) >= 1
    /\ IsLower(s[1]) \/ IsUpper(s[1]) \/ s[1] = "_"
    /\ \A i \in 2..Len(s) : IsLower(s[i]) \/ IsUpper(s[i]) \/ IsDigit(s[i]) \/ s[i] = "_"

\* re.sub(r"[^a-z0-9_]+", "-", s): every maximal run of other characters
\* becomes one hyphen
RECURSIVE SubRuns(_)
SubRuns(s) ==
    LET ok(c) == IsLower(c) \/ IsDigit(c) \/ c = "_"
    IN  IF s = <<>> THEN <<>>
        ELSE IF ok(s[1]) THEN <<s[1]>> \o SubRuns(Tail(s))
        ELSE LET rest == {j \in 2..Len(s) : ok(s[j])}
             IN  IF rest = {} THEN <<"-">>
                 ELSE <<"-">> \o SubRuns(From(s, CHOOSE j \in rest : \A k \in rest : j <= k))

\* s.replace("--", "-"): left to right, without overlap
RECURSIVE ReplaceDouble(_)
ReplaceDouble(s) ==
    IF Len(s) < 2 THEN s
    ELSE IF s[1] = "-" /\ s[2] = "-" THEN <<"-">> \o ReplaceDouble(From(s, 3))
    ELSE <<s[1]>> \o ReplaceDouble(Tail(s))

\* s.replace("-", "_")
ReplaceHyphen(s) == [i \in DOMAIN s |-> IF s[i] = "-" THEN "_" ELSE s[i]]

_slugify(name) == ReplaceDouble(StripChars(SubRuns(Lower(Strip(name))), {"-"}))

\* a value returned, or an exception raised
Ok(v) == [ok |-> TRUE, val |-> v]
Raise(e) == [ok |-> FALSE, exc |-> e]

_ensure_ident(s, kind) == IF _VALID_IDENT(s) THEN Ok(s) ELSE Raise("ValueError")

----------------------------------------------------------------------------
(* String literals of agent_scaffolder/tools.py                            *)

\* 'async def '
S_async_def == <<"a","s","y","n","c"," ","d","e","f"," ">>
\* ') -> '
S_arrow == <<")"," ","-",">"," ">>
\* '    '
S_indent == <<" "," "," "," ">>
\* '    log.info("['
S_log_open == <<" "," "," "," ","l","o","g",".","i","n","f","o","(","\"","[">>
\* '] called")'
S_log_close == <<"]"," ","c","a","l","l","e","d","\"",")">>
\* 'tool_context=None'
S_tool_context == <<"t","o","o","l","_","c","o","n","t","e","x","t","=","N","o","n","e">>
\* 'tool_config: Optional[Dict[str, Any]] = None'
S_tool_config == <<"t","o","o","l","_","c","o","n","f","i","g",":"," ","O","p","t","i","o","n","a","l","[","D","i","c","t","[","s","t","r",","," ","A","n","y","]","]"," ","="," ","N","o","n","e">>
\* ', '
S_comma == <<","," ">>
\* ': '
S_colon == <<":"," ">>
\* ' = '
S_eq == <<" ","="," ">>
\* 'Any'
S_Any == <<"A","n","y">>
\* '"""'
S_quotes == <<"\"","\"","\"">>
\* 'Args:'
S_Args == <<"A","r","g","s",":">>
\* 'Returns:'
S_Returns == <<"R","e","t","u","r","n","s",":">>
\* '  '
S_two == <<" "," ">>
\* ' ('
S_lpar == <<" ","(">>
\* '): '
S_rpar_colon == <<")",":"," ">>
\* 'No description provided.'
S_no_desc == <<"N","o"," ","d","e","s","c","r","i","p","t","i","o","n"," ","p","r","o","v","i","d","e","d",".">>
\* '    result = {"status": "ok", "note": "Replace with real logic"}'
S_body_dict_1 == <<" "," "," "," ","r","e","s","u","l","t"," ","="," ","{","\"","s","t","a","t","u","s","\"",":"," ","\"","o","k","\"",","," ","\"","n","o","t","e","\"",":"," ","\"","R","e","p","l","a","c","e"," ","w","i","t","h"," ","r","e","a","l"," ","l","o","g","i","c","\"","}">>
\* '    return result'
S_body_dict_2 == <<" "," "," "," ","r","e","t","u","r","n"," ","r","e","s","u","l","t">>
\* '    return "OK (replace with real logic)"'
S_body_text == <<" "," "," "," ","r","e","t","u","r","n"," ","\"","O","K"," ","(","r","e","p","l","a","c","e"," ","w","i","t","h"," ","r","e","a","l"," ","l","o","g","i","c",")","\"">>
\* 'dict'
S_dict == <<"d","i","c","t">>
\* 'mapping'
S_mapping == <<"m","a","p","p","i","n","g">>
\* '# Auto-generated tool stubs for '
S_hdr_banner == <<"#"," ","A","u","t","o","-","g","e","n","e","r","a","t","e","d"," ","t","o","o","l"," ","s","t","u","b","s"," ","f","o","r"," ">>
\* 'from __future__ import annotations'
S_hdr_future == <<"f","r","o","m"," ","_","_","f","u","t","u","r","e","_","_"," ","i","m","p","o","r","t"," ","a","n","n","o","t","a","t","i","o","n","s">>
\* 'from typing import Any, Dict, List, Optional'
S_hdr_typing == <<"f","r","o","m"," ","t","y","p","i","n","g"," ","i","m","p","o","r","t"," ","A","n","y",","," ","D","i","c","t",","," ","L","i","s","t",","," ","O","p","t","i","o","n","a","l">>
\* 'from solace_ai_connector.common.log import log'
S_hdr_log == <<"f","r","o","m"," ","s","o","l","a","c","e","_","a","i","_","c","o","n","n","e","c","t","o","r",".","c","o","m","m","o","n",".","l","o","g"," ","i","m","p","o","r","t"," ","l","o","g">>
\* '- tool_type: python'
S_yaml_type == <<"-"," ","t","o","o","l","_","t","y","p","e",":"," ","p","y","t","h","o","n">>
\* '  component_module: "'
S_yaml_module == <<" "," ","c","o","m","p","o","n","e","n","t","_","m","o","d","u","l","e",":"," ","\"">>
\* '  component_base_path: .'
S_yaml_base == <<" "," ","c","o","m","p","o","n","e","n","t","_","b","a","s","e","_","p","a","t","h",":"," ",".">>
\* '  function_name: "'
S_yaml_fn == <<" "," ","f","u","n","c","t","i","o","n","_","n","a","m","e",":"," ","\"">>
\* '  tool_description: "'
S_yaml_desc == <<" "," ","t","o","o","l","_","d","e","s","c","r","i","p","t","i","o","n",":"," ","\"">>
\* '"'
S_dquote == <<"\"">>
\* ' tool.'
S_tool_dot == <<" ","t","o","o","l",".">>
\* 'src.'
S_src_dot == <<"s","r","c",".">>
\* '.tools'
S_dot_tools == <<".","t","o","o","l","s">>
\* '<missing>'
S_missing == <<"<","m","i","s","s","i","n","g",">">>
\* ' (invalid: '
S_invalid_open == <<" ","(","i","n","v","a","l","i","d",":"," ">>
\* "Invalid function identifier: '"
S_invalid_msg == <<"I","n","v","a","l","i","d"," ","f","u","n","c","t","i","o","n"," ","i","d","e","n","t","i","f","i","e","r",":"," ","'">>
\* "'function_name'"
S_keyerror == <<"'","f","u","n","c","t","i","o","n","_","n","a","m","e","'">>

----------------------------------------------------------------------------
(* Rendering                                                               *)

\* one parameter of the signature: "nm: typ = default" or "nm: typ"
RenderParam(p) ==
    IF "name" \notin DOMAIN p THEN Raise("KeyError")
    ELSE LET nm == _ensure_ident(p.name, "parameter")
             typ == Get(p, "type", S_Any)
         IN  IF ~nm.ok THEN nm
             ELSE IF "default" \in DOMAIN p
                  THEN Ok(nm.val \o S_colon \o typ \o S_eq \o Repr(p.default))
                  ELSE Ok(nm.val \o S_colon \o typ)

\* ", ".join(items)
RECURSIVE JoinComma(_)
JoinComma(items) ==
    IF items = <<>> THEN <<>>
    ELSE IF Len(items) = 1 THEN items[1]
    ELSE items[1] \o S_comma \o JoinComma(Tail(items))

\* the parameters in input order, then tool_context and tool_config; the first
\* parameter whose name is absent or no identifier raises
_render_param_sig(params) ==
    LET r == [i \in DOMAIN params |-> RenderParam(params[i])]
        bad == {i \in DOMAIN params : ~r[i].ok}
    IN  IF bad # {} THEN r[CHOOSE i \in bad : \A j \in bad : i <= j]
        ELSE Ok(JoinComma([i \in DOMAIN params |-> r[i].val]
                          \o <<S_tool_context, S_tool_config>>))

\* the docstring: its lines joined by "\n    "
_render_docstring(desc, params, returns) ==
    LET args == IF params = <<>> THEN <<>>
                ELSE <<<<>>, S_Args>> \o
                     [i \in DOMAIN params |->
                        S_two \o params[i].name \o S_lpar
                        \o Get(params[i], "type", S_Any) \o S_rpar_colon
                        \o Get(params[i], "description", <<>>)]
        rets == IF DOMAIN returns = {} THEN <<>>
                ELSE <<<<>>, S_Returns,
                       S_two \o Get(returns, "type", S_Any) \o S_colon
                       \o Get(returns, "description", <<>>)>>
        lines == <<S_quotes, Strip(desc)>> \o args \o rets \o <<S_quotes>>
    IN  [i \in DOMAIN lines |-> IF i = 1 THEN lines[i] ELSE S_indent \o lines[i]]

\* a stub body that knows "dict" only, in lower case (a variant of _default_body)
_default_body_dict_only(return_type) ==
    IF "type" \in DOMAIN return_type /\ return_type.type = S_dict
    THEN <<S_body_dict_1, S_body_dict_2, <<>>>>
    ELSE <<S_body_text, <<>>>>

\* the stub body; return_type is [type |-> t], or [none |-> TRUE] for None
_default_body(return_type) ==
    IF /\ "type" \in DOMAIN return_type
       /\ return_type.type # <<>>
       /\ Lower(return_type.type) \in {S_dict, S_mapping}
    THEN <<S_body_dict_1, S_body_dict_2, <<>>>>
    ELSE <<S_body_text, <<>>>>

\* a line matches ^async\s+def ; the position after "def", or 0
AsyncDefEnd(line) ==
    LET d == SkipSpace(line, 6)
    IN  IF /\ StartsWith(line, <<"a","s","y","n","c">>)
           /\ d > 6
           /\ StartsWith(From(line, d), <<"d","e","f">>)
        THEN d + 3 ELSE 0

\* a line matches ^async\s+def\s+fname\s*\( ; the position after "(", or 0
DefLineEnd(line, fname) ==
    LET e == AsyncDefEnd(line)
        n == SkipSpace(line, e)
        q == SkipSpace(line, n + Len(fname))
    IN  IF /\ e > 0
           /\ n > e
           /\ StartsWith(From(line, n), fname)
           /\ q <= Len(line)
           /\ line[q] = "("
        THEN q + 1 ELSE 0

_function_exists(file_text, fname) ==
    \E k \in DOMAIN file_text : DefLineEnd(file_text[k], fname) > 0

\* the substitution pattern's head, ^async\s+def\s+fname\s*\([^\)]*\)\s*-> ,
\* matches at the start of the line: after "(", the first ")" of the line is
\* followed by "->"
SubHeadMatches(line, fname) ==
    LET p == DefLineEnd(line, fname)
        close == {j \in p..Len(line) : line[j] = ")"}
    IN  /\ p > 0
        /\ close # {}
        /\ LET c == CHOOSE j \in close : \A k \in close : j <= k
           IN  StartsWith(From(line, SkipSpace(line, c + 1)), <<"-", ">">>)

\* the piece that ends the shortest match starting in piece k: the first
\* "\n" followed by a line that starts "async def", or by the end of the text
\* (0: there is none, the pattern does not match)
SubMatchEnd(text, k) ==
    LET ends == {m \in k..(Len(text) - 1) :
                    \/ AsyncDefEnd(text[m + 1]) > 0
                    \/ m + 1 = Len(text) /\ text[m + 1] = <<>>}
    IN  IF ends = {} THEN 0
        ELSE CHOOSE m \in ends : \A j \in ends : m <= j

\* re.sub(pattern, "", text, flags=re.MULTILINE): every match, left to right,
\* is cut out; k is the piece the scan stands at
RECURSIVE SubFrom(_, _, _)
SubFrom(text, fname, k) ==
    IF k > Len(text) THEN text
    ELSE LET m == IF SubHeadMatches(text[k], fname) THEN SubMatchEnd(text, k) ELSE 0
         IN  IF m = 0 THEN SubFrom(text, fname, k + 1)
             ELSE SubFrom(SubSeq(text, 1, k - 1) \o From(text, m + 1), fname, k)

\* a removal that cuts from the definition line of fname to the end of the
\* text (a variant of RemoveFunction)
RemoveFunction_to_end(text, fname) ==
    LET at == {k \in DOMAIN text : DefLineEnd(text[k], fname) > 0}
    IN  IF at = {} THEN text
        ELSE SubSeq(text, 1, (CHOOSE k \in at : \A j \in at : k <= j) - 1) \o <<<<>>>>

RemoveFunction(text, fname) == SubFrom(text, fname, 1)

\* the caller's body, each non-blank line indented, "" appended when the body
\* does not end with "\n"
RenderBody(body) ==
    LET ls == SplitLines(body)
    IN  [i \in DOMAIN ls |-> IF Strip(ls[i]) # <<>> THEN S_indent \o ls[i] ELSE ls[i]]
        \o (IF EndsWithNewline(body) THEN <<>> ELSE <<<<>>>>)

_render_function_block(spec) ==
    IF "function_name" \notin DOMAIN spec THEN Raise("KeyError")
    ELSE
    LET fname == _ensure_ident(spec.function_name, "function")
        desc == Get(spec, "description", S_no_desc)
        params == Get(spec, "params", <<>>)
        returns == Get(spec, "returns", [type |-> S_Any, description |-> <<>>])
        sig == _render_param_sig(params)
        doc == _render_docstring(desc, params, returns)
        rtype == Get(returns, "type", S_Any)
        hasBody == "body" \in DOMAIN spec /\ spec.body # <<<<>>>>
        body == IF hasBody THEN RenderBody(spec.body)
                ELSE _default_body(IF "type" \in DOMAIN returns
                                   THEN [type |-> returns.type] ELSE [none |-> TRUE])
    IN  IF ~fname.ok THEN fname
        ELSE IF ~sig.ok THEN sig
        ELSE Ok(<<S_async_def \o fname.val \o <<"(">> \o sig.val \o S_arrow
                  \o rtype \o <<":">>>>
                \o [i \in DOMAIN doc |-> IF i = 1 THEN S_indent \o doc[i] ELSE doc[i]]
                \o <<S_log_open \o fname.val \o S_log_close>>
                \o body
                \o <<<<>>, <<>>>>)

_render_header(module_title) ==
    <<S_hdr_banner \o module_title, S_hdr_future, S_hdr_typing, S_hdr_log, <<>>, <<>>>>

\* a stanza that shows the description as given, without the "<name> tool."
\* fallback (a variant of _render_yaml_tool_block)
_render_yaml_tool_block_no_fallback(module_path, fn_name, description) ==
    <<S_yaml_type,
      S_yaml_module \o module_path \o S_dquote,
      S_yaml_base,
      S_yaml_fn \o fn_name \o S_dquote,
      S_yaml_desc \o description \o S_dquote,
      <<>>>>

_render_yaml_tool_block(module_path, fn_name, description) ==
    LET desc == IF description # <<>> THEN description ELSE fn_name \o S_tool_dot
    IN  <<S_yaml_type,
          S_yaml_module \o module_path \o S_dquote,
          S_yaml_base,
          S_yaml_fn \o fn_name \o S_dquote,
          S_yaml_desc \o desc \o S_dquote,
          <<>>>>

----------------------------------------------------------------------------
(* define_dynamic_tools                                                    *)

\* None
NoneVal == [none |-> TRUE]
IsNone(v) == "none" \in DOMAIN v

\* getattr(obj, attr, None)
GetAttr(obj, attr) == IF attr \in DOMAIN obj THEN obj[attr] ELSE NoneVal

\* A directory or file is the sequence of the components of its absolute
\* path: /srv/app is <<"srv" , "app">>, each component a string of characters.

\* s.split("/")
RECURSIVE SplitSlash(_)
SplitSlash(s) ==
    LET cut == {i \in DOMAIN s : s[i] = "/"}
    IN  IF cut = {} THEN <<s>>
        ELSE LET i == CHOOSE i \in cut : \A j \in cut : i <= j
             IN  <<SubSeq(s, 1, i - 1)>> \o SplitSlash(From(s, i + 1))

\* Path(s): whether s is absolute, and its components; empty components and
\* "." are dropped
PathOf(s) ==
    LET IsName(c) == c # <<>> /\ c # <<".">>
    IN  [absolute |-> s # <<>> /\ s[1] = "/", parts |-> SelectSeq(SplitSlash(s), IsName)]

\* ".." steps to the parent, and stays at the root
RECURSIVE Collapse(_, _)
Collapse(parts, done) ==
    IF parts = <<>> THEN done
    ELSE IF Head(parts) = <<".", ".">>
    THEN Collapse(Tail(parts), IF done = <<>> THEN <<>> ELSE SubSeq(done, 1, Len(done) - 1))
    ELSE Collapse(Tail(parts), Append(done, Head(parts)))

\* the working directory of the process
Cwd == <<<<"w","o","r","k">>>>

\* Path(s).resolve(), where no component is a symbolic link: a relative path
\* is taken from the working directory
Resolve(s) ==
    LET path == PathOf(s)
    IN  Collapse((IF path.absolute THEN <<>> ELSE Cwd) \o path.parts, <<>>)

\* Path(__file__).resolve(), for a repository installed at /<repo>
ModuleFile == <<<<"<","r","e","p","o",">">>, <<"s","r","c">>, <<"a","g","e","n","t","_","s","c","a","f","f","o","l","d","e","r">>, <<"t","o","o","l","s",".","p","y">>>>

\* path.parents[n]
Parents(path, n) == SubSeq(path, 1, Len(path) - n - 1)

\* a resolution that asks for component_base_path first
_resolve_base_component_first(tool_context) ==
    LET app_base == GetAttr(tool_context, "app_base_path")
        comp_base == GetAttr(tool_context, "component_base_path")
    IN  IF ~IsNone(tool_context) /\ ~IsNone(comp_base) /\ comp_base.path # <<>>
        THEN Resolve(comp_base.path)
        ELSE IF ~IsNone(tool_context) /\ ~IsNone(app_base) /\ app_base.path # <<>>
        THEN Resolve(app_base.path)
        ELSE Parents(ModuleFile, 2)

\* the base directory: app_base_path, else component_base_path, else the
\* repository root two levels above the module; an attribute that is set
\* holds [path |-> s] for a string s
_resolve_base(tool_context) ==
    LET app_base == GetAttr(tool_context, "app_base_path")
        comp_base == GetAttr(tool_context, "component_base_path")
    IN  IF ~IsNone(tool_context) /\ ~IsNone(app_base) /\ app_base.path # <<>>
        THEN Resolve(app_base.path)
        ELSE IF ~IsNone(tool_context) /\ ~IsNone(comp_base) /\ comp_base.path # <<>>
        THEN Resolve(comp_base.path)
        ELSE Parents(ModuleFile, 2)

\* slug = _slugify(agent_name).replace("-", "_")
AgentSlug(agent_name) == ReplaceHyphen(_slugify(agent_name))

\* slug[0].isalpha() on the lower-cased slug; slug[0] of "" raises IndexError
ModuleIdent(slug) ==
    IF slug = <<>> THEN Raise("IndexError")
    ELSE _ensure_ident(IF IsLower(slug[1]) THEN slug ELSE <<"_">> \o slug, "module")

\* the entry of skipped for a spec whose function_name is absent or invalid
InvalidEntry(spec) ==
    IF "function_name" \in DOMAIN spec
    THEN spec.function_name \o S_invalid_open \o S_invalid_msg
         \o spec.function_name \o <<"'", ")">>
    ELSE S_missing \o S_invalid_open \o S_keyerror \o <<")">>

\* one pass of the loop over tools; acc holds text, created, skipped and the
\* exception that left the loop, if any
ProcessSpec(acc, spec, overwrite) ==
    LET valid == "function_name" \in DOMAIN spec /\ _VALID_IDENT(spec.function_name)
        fname == spec.function_name
        exists == _function_exists(acc.text, fname)
        cut == IF exists /\ overwrite THEN RemoveFunction(acc.text, fname) ELSE acc.text
        block == _render_function_block(spec)
    IN  IF acc.exc # "" THEN acc
        ELSE IF ~valid
             THEN [acc EXCEPT !.skipped = Append(@, InvalidEntry(spec))]
        ELSE IF exists /\ ~overwrite
             THEN [acc EXCEPT !.skipped = Append(@, fname)]
        ELSE IF ~block.ok
             THEN [acc EXCEPT !.exc = block.exc]
        ELSE [acc EXCEPT !.text = Concat(cut, block.val),
                         !.created = Append(@, fname)]

RECURSIVE ProcessTools(_, _, _)
ProcessTools(acc, tools, overwrite) ==
    IF tools = <<>> THEN acc
    ELSE CHOOSE out \in {ProcessTools(ProcessSpec(a, Head(tools), overwrite),
                                      Tail(tools), overwrite) : a \in {acc}} : TRUE

\* the YAML stanzas of the specs whose function_name is a valid identifier
RECURSIVE YamlBlocks(_, _)
YamlBlocks(module_path, tools) ==
    IF tools = <<>> THEN <<>>
    ELSE LET spec == Head(tools)
             rest == YamlBlocks(module_path, Tail(tools))
         IN  IF /\ "function_name" \in DOMAIN spec
                /\ spec.function_name # <<>>
                /\ _VALID_IDENT(spec.function_name)
             THEN <<_render_yaml_tool_block(module_path, spec.function_name,
                                            Get(spec, "description", <<>>))>> \o rest
             ELSE rest

\* create_file_artifact of the service svc: an artifact with an id, None, or
\* an exception
create_file_artifact(svc, n) ==
    IF svc.reply = "raise" THEN Raise("Exception")
    ELSE IF svc.reply = "artifact" THEN Ok([id |-> n])
    ELSE Ok(NoneVal)

\* an artifact registration without the try of line 226: what the service
\* raises leaves the call (a variant of RegisterArtifact)
RegisterArtifact_uncaught(tool_context, py_file, log) ==
    LET svc == GetAttr(tool_context, "artifact_service")
        art == create_file_artifact(svc, Len(log) + 1)
    IN  IF IsNone(tool_context) \/ IsNone(svc)
        THEN [log |-> log, ids |-> <<>>, exc |-> ""]
        ELSE [log |-> Append(log, [file_path |-> py_file, mime_type |-> "text/x-python"]),
              ids |-> IF art.ok /\ ~IsNone(art.val) THEN <<art.val.id>> ELSE <<>>,
              exc |-> IF art.ok THEN "" ELSE art.exc]

\* the artifact service is called when the context carries one; the id of the
\* artifact it returns is kept; what it raises is caught and logged
RegisterArtifact(tool_context, py_file, log) ==
    LET svc == GetAttr(tool_context, "artifact_service")
        art == create_file_artifact(svc, Len(log) + 1)
    IN  IF IsNone(tool_context) \/ IsNone(svc)
        THEN [log |-> log, ids |-> <<>>, exc |-> ""]
        ELSE [log |-> Append(log, [file_path |-> py_file, mime_type |-> "text/x-python"]),
              ids |-> IF art.ok /\ ~IsNone(art.val) THEN <<art.val.id>> ELSE <<>>,
              exc |-> ""]

\* not agent_name
NotStr(v) == IsNone(v) \/ v.str = <<>>

\* a check of tools that lets the empty list pass (a variant of NotList)
NotList_none_only(v) == IsNone(v)

\* not tools
NotList(v) == IsNone(v) \/ v.list = <<>>

\* what follows the loop over the specs, which left acc: the directory and
\* __init__.py of lines 187-188 are there, the module text is written unless
\* the loop raised, the artifact is registered and the record returned
WriteAndReturn(fs, log, tools, tool_context, slug, acc) ==
    LET base == _resolve_base(tool_context)
        src_dir == [base |-> base, slug |-> slug]
        py_file == [base |-> base, slug |-> slug, file |-> "tools.py"]
        init_file == [base |-> base, slug |-> slug, file |-> "__init__.py"]
        module_path == S_src_dot \o slug \o S_dot_tools
        dirs1 == fs.dirs \cup {src_dir}
        files1 == IF init_file \in DOMAIN fs.files THEN fs.files
                  ELSE fs.files @@ (init_file :> <<<<>>>>)
        files2 == IF py_file \in DOMAIN files1
                  THEN [files1 EXCEPT ![py_file] = acc.text]
                  ELSE files1 @@ (py_file :> acc.text)
        art == RegisterArtifact(tool_context, py_file, log)
    IN  IF acc.exc # ""
        THEN [dirs |-> dirs1, files |-> files1, log |-> log,
              result |-> [status |-> "raised", error |-> acc.exc]]
        ELSE IF art.exc # ""
        THEN [dirs |-> dirs1, files |-> files2, log |-> art.log,
              result |-> [status |-> "raised", error |-> art.exc]]
        ELSE [dirs |-> dirs1, files |-> files2, log |-> art.log,
              result |-> [status |-> "success",
                          module_path |-> module_path,
                          py_file |-> py_file,
                          created |-> acc.created,
                          skipped |-> acc.skipped,
                          artifact_ids |-> art.ids,
                          yaml_tools_block |-> JoinLines(YamlBlocks(module_path, tools.list))]]

\* one line of a file read in text mode: every "\r" ends a line
RECURSIVE SplitCR(_)
SplitCR(line) ==
    LET at == {i \in DOMAIN line : line[i] = "\r"}
    IN  IF at = {} THEN <<line>>
        ELSE LET i == CHOOSE j \in at : \A k \in at : j <= k
             IN  <<SubSeq(line, 1, i - 1)>> \o SplitCR(SubSeq(line, i + 1, Len(line)))

\* Path.read_text(encoding="utf-8"): the file is read with universal newlines,
\* "\r\n" and a lone "\r" both arrive as "\n"; k is the piece the scan stands at
RECURSIVE ReadFrom(_, _)
ReadFrom(content, k) ==
    IF k > Len(content) THEN <<>>
    ELSE LET parts == SplitCR(content[k])
             crlf == /\ k < Len(content)
                     /\ content[k] # <<>>
                     /\ content[k][Len(content[k])] = "\r"
         IN  (IF crlf THEN SubSeq(parts, 1, Len(parts) - 1) ELSE parts)
             \o ReadFrom(content, k + 1)

read_text(content) == ReadFrom(content, 1)

\* the whole call on the file system fs = [dirs, files] and the service log:
\* the file system and log afterwards, and the record returned or the
\* exception raised
define_dynamic_tools(fs, log, agent_name, tools, overwrite, tool_context) ==
    LET same(res) == [dirs |-> fs.dirs, files |-> fs.files, log |-> log, result |-> res]
        slug == AgentSlug(agent_name.str)
        ident == ModuleIdent(slug)
        py_file == [base |-> _resolve_base(tool_context), slug |-> slug, file |-> "tools.py"]
        text0 == IF py_file \in DOMAIN fs.files THEN read_text(fs.files[py_file])
                 ELSE _render_header(agent_name.str)
    IN  IF NotStr(agent_name)
        THEN same([status |-> "error", error |-> "agent_name is required"])
        ELSE IF NotList(tools)
        THEN same([status |-> "error", error |-> "tools must be a non-empty list"])
        ELSE IF ~ident.ok
        THEN same([status |-> "raised", error |-> ident.exc])
        ELSE WriteAndReturn(fs, log, tools, tool_context, slug,
                 ProcessTools([text |-> text0, created |-> <<>>, skipped |-> <<>>, exc |-> ""],
                              tools.list, overwrite))


----------------------------------------------------------------------------
(* The calls the model makes                                               *)

\* the sequences over S of length at most n
SeqsUpTo(S, n) == UNION {[1..k -> S] : k \in 0..n}

Str(s) == [str |-> s]
List(l) == [list |-> l]

N_ping == <<"p","i","n","g">>
N_echo == <<"e","c","h","o">>

\* {"function_name": "ping", "params": [], "returns": {"type": "dict"}}
SpecPing ==
    [function_name |-> N_ping, params |-> <<>>, returns |-> [type |-> <<"d","i","c","t">>]]

\* ping with another return type, a description and a parameter with a default
SpecPingStr ==
    [function_name |-> N_ping, description |-> <<"P","i","n","g",".">>,
     params |-> <<[name |-> <<"n">>, type |-> <<"i","n","t">>, default |-> [int |-> 3]]>>,
     returns |-> [type |-> <<"s","t","r">>, description |-> <<"p","o","n","g">>]]

\* ping with a parameter whose default literal holds a closing parenthesis
SpecPingParen ==
    [function_name |-> N_ping,
     params |-> <<[name |-> <<"s","e","p">>, type |-> <<"s","t","r">>, default |-> [str |-> <<")">>]]>>,
     returns |-> [type |-> <<"d","i","c","t">>]]

\* ping with a description that holds a carriage return, "a\rb"
SpecPingCR ==
    [function_name |-> N_ping, description |-> <<"a", "\r", "b">>, params |-> <<>>,
     returns |-> [type |-> <<"d","i","c","t">>]]

\* echo with a caller-supplied body "x = 1\n\nreturn text", no returns
SpecEcho ==
    [function_name |-> N_echo, description |-> <<" ","E","c","h","o"," ","t","e","x","t","."," ">>,
     params |-> <<[name |-> <<"t","e","x","t">>, type |-> <<"s","t","r">>, description |-> <<"i","n">>],
                  [name |-> <<"n">>, default |-> [int |-> 10]]>>,
     body |-> <<<<"x"," ","="," ","1">>, <<>>, <<"r","e","t","u","r","n"," ","t","e","x","t">>>>]

\* a function name that is no identifier
SpecBadName == [function_name |-> <<"1","b","a","d">>, params |-> <<>>]

\* no function_name at all
SpecNoName == [description |-> <<"P","i","n","g",".">>]

\* a valid function name, a parameter name that is no identifier
SpecBadParam ==
    [function_name |-> N_echo, params |-> <<[name |-> <<"2","x">>, type |-> <<"i","n","t">>]>>,
     returns |-> [type |-> <<"s","t","r">>]]

MaxCalls == 2

A_DataBot == <<"D","a","t","a"," ","B","o","t">>
A_databot == <<"d","a","t","a"," ","b","o","t","!">>
A_Punct == <<"!","!">>
\* "Data\rBot", a name that holds a carriage return and has the slug data_bot
A_DataCR == <<"D","a","t","a","\r","B","o","t">>

\* batches of specs with valid names
ValidBatches ==
    {<<SpecPing>>, <<SpecPingStr>>, <<SpecPingParen>>, <<SpecPingCR>>, <<SpecEcho>>,
     <<SpecPingParen, SpecPing>>,
     <<SpecPing, SpecEcho>>, <<SpecEcho, SpecPingStr>>, <<SpecPing, SpecPingStr>>}

\* batches with a spec that is rejected, or that makes the call raise
FaultyBatches ==
    {<<SpecPing, SpecBadName, SpecEcho>>, <<SpecNoName, SpecPingStr>>, <<SpecBadName>>,
     <<SpecBadParam>>, <<SpecPing, SpecBadParam>>}

NoService == NoneVal
WithService == [artifact_service |-> [reply |-> "artifact"]]
\* a service that raises, and one that returns None
RaisingService == [artifact_service |-> [reply |-> "raise"]]
NullService == [artifact_service |-> [reply |-> "none"]]

Call(a, t, o, c) == [agent_name |-> a, tools |-> t, overwrite |-> o, tool_context |-> c]

\* the calls the model makes: every batch for the agent "Data Bot", some for
\* another spelling of the same slug, the missing and empty arguments, and
\* calls with an artifact service that returns an artifact, returns None or
\* raises
Calls ==
    {Call(Str(A_DataBot), List(t), o, NoService) :
        t \in ValidBatches \cup FaultyBatches, o \in BOOLEAN}
    \cup {Call(Str(A_databot), List(t), o, NoService) :
        t \in {<<SpecPing>>, <<SpecEcho>>}, o \in BOOLEAN}
    \cup {Call(a, t, FALSE, c) :
        a \in {NoneVal, Str(<<>>), Str(A_Punct), Str(A_DataBot)},
        t \in {NoneVal, List(<<>>)}, c \in {NoService, WithService}}
    \cup {Call(Str(A_Punct), List(<<SpecPing, SpecBadName, SpecEcho>>), FALSE, NoService)}
    \cup {Call(a, List(<<SpecPing>>), o, c) :
        a \in {NoneVal, Str(<<>>), Str(A_Punct), Str(A_DataBot)},
        o \in BOOLEAN, c \in {WithService}}
    \cup {Call(Str(A_DataBot), List(t), o, RaisingService) :
        t \in {<<SpecPing>>, <<SpecEcho>>, <<SpecPing, SpecBadName, SpecEcho>>}, o \in BOOLEAN}
    \cup {Call(Str(A_DataCR), List(<<SpecPing>>), FALSE, NoService),
          Call(Str(A_DataBot), List(<<SpecEcho>>), FALSE, NullService),
          Call(Str(A_Punct), List(<<SpecPing>>), FALSE, RaisingService)}

----------------------------------------------------------------------------
(* State                                                                   *)

VARIABLES
    dirs,      \* the directories src/<slug>/ that exist
    files,     \* the files that exist, with their text
    log,       \* the calls the artifact service has received
    args,      \* the arguments of the last call
    result,    \* what the last call returned, or the exception it raised
    calls      \* the number of calls made

vars == <<dirs, files, log, args, result, calls>>

NoFiles == [p \in {} |-> <<>>]

Init ==
    /\ dirs = {}
    /\ files = NoFiles
    /\ log = <<>>
    /\ args = [op |-> "none"]
    /\ result = [status |-> "none"]
    /\ calls = 0

Invoke(agent_name, tools, overwrite, tool_context) ==
    \E r \in {define_dynamic_tools([dirs |-> dirs, files |-> files], log,
                                    agent_name, tools, overwrite, tool_context)} :
        /\ calls < MaxCalls
        /\ dirs' = r.dirs
        /\ files' = r.files
        /\ log' = r.log
        /\ result' = r.result
        /\ args' = [op |-> "define_dynamic_tools", agent_name |-> agent_name,
                    tools |-> tools, overwrite |-> overwrite,
                    tool_context |-> tool_context]
        /\ calls' = calls + 1

Next ==
    \E c \in Calls : Invoke(c.agent_name, c.tools, c.overwrite, c.tool_context)

Spec == Init /\ [][Next]_vars


----------------------------------------------------------------------------
(* The slug of an agent name, as define_dynamic_tools derives it           *)

MaxNameLen == 3

\* agent names: every non-empty name of at most MaxNameLen characters over a
\* small alphabet, and the names of the documentation
SlugNames ==
    (SeqsUpTo({"A", "b", "9", "_", " ", "!", "-"}, MaxNameLen) \ {<<>>})
    \cup {<<"M","y"," ","C","o","o","l"," ","A","g","e","n","t","!","!">>, A_DataBot}

\* lines 178-185: the slug, the module identifier check, the module path
SlugOutcome(agent_name) ==
    LET slug == AgentSlug(agent_name)
        ident == ModuleIdent(slug)
    IN  IF ident.ok
        THEN [status |-> "slug", slug |-> slug,
              module_path |-> S_src_dot \o slug \o S_dot_tools]
        ELSE [status |-> "raised", error |-> ident.exc]

InitSlug ==
    /\ dirs = {}
    /\ files = NoFiles
    /\ log = <<>>
    /\ calls = 0
    /\ result = [status |-> "none"]
    /\ args \in {[op |-> "_slugify", agent_name |-> n] : n \in SlugNames}

Slugify ==
    /\ result.status = "none"
    /\ result' = SlugOutcome(args.agent_name)
    /\ UNCHANGED <<dirs, files, log, args, calls>>

SpecSlug == InitSlug /\ [][Slugify]_vars

----------------------------------------------------------------------------
(* The rendering of one ToolSpec                                           *)

MaxParams == 2

\* parameters without and with a default, one default holding ")"
ParamChoices ==
    {[name |-> <<"t","e","x","t">>, type |-> <<"s","t","r">>],
     [name |-> <<"f","l","a","g">>],
     [name |-> <<"n">>, type |-> <<"i","n","t">>, default |-> [int |-> 10]],
     [name |-> <<"s","e","p">>, type |-> <<"s","t","r">>, default |-> [str |-> <<")">>]]}

\* returns: absent, without a type, with an empty type, and with a type
ReturnChoices ==
    {[type |-> <<"d","i","c","t">>], [type |-> <<"D","i","c","t">>], [type |-> <<"M","a","p","p","i","n","g">>], [type |-> <<"s","t","r">>],
     [type |-> <<>>], [description |-> <<"p","o","n","g">>]}

\* body: absent, empty, "return 1", "x = 1\n\nreturn x\n"
BodyChoices == {<<<<>>>>, <<<<"r","e","t","u","r","n"," ","1">>>>, <<<<"x"," ","="," ","1">>, <<>>, <<"r","e","t","u","r","n"," ","x">>, <<>>>>}

RenderSpecs ==
    LET base == {[function_name |-> N_ping, params |-> ps] :
                    ps \in SeqsUpTo(ParamChoices, MaxParams)}
        withReturns == base \cup {s @@ [returns |-> r] : s \in base, r \in ReturnChoices}
    IN  withReturns \cup {s @@ [body |-> b] : s \in withReturns, b \in BodyChoices}

RenderOutcome(spec) ==
    LET b == _render_function_block(spec)
    IN  IF b.ok THEN [status |-> "rendered", block |-> b.val]
        ELSE [status |-> "raised", error |-> b.exc]

InitRender ==
    /\ dirs = {}
    /\ files = NoFiles
    /\ log = <<>>
    /\ calls = 0
    /\ result = [status |-> "none"]
    /\ args \in {[op |-> "_render_function_block", spec |-> s] : s \in RenderSpecs}

Render ==
    /\ result.status = "none"
    /\ result' = RenderOutcome(args.spec)
    /\ UNCHANGED <<dirs, files, log, args, calls>>

SpecRender == InitRender /\ [][Render]_vars

----------------------------------------------------------------------------
(* define_dynamic_tools step by step, run by two callers at once            *)
(*                                                                          *)
(* The coroutine holds no await, no lock and no atomic rename: two calls    *)
(* made from different threads or processes interleave between any two of   *)
(* its file operations.  Here args[p] holds the arguments of caller p,      *)
(* result[p] the locals of its invocation (pc, text, created, skipped, the  *)
(* index i of the next spec) and in the end what it returned, and calls[p]  *)
(* the number of times it has written tools.py.                             *)

Procs == {"p1", "p2"}

\* Path.write_text(text): the file is opened for writing, which empties it ...
open_w(fs_files, path) ==
    IF path \in DOMAIN fs_files THEN [fs_files EXCEPT ![path] = <<<<>>>>]
    ELSE fs_files @@ (path :> <<<<>>>>)

\* a write that is lost: the file stays as it was opened (a variant of
\* write_text)
write_text_lost(fs_files, path, text) == fs_files

\* ... and then holds the text in full
write_text(fs_files, path, text) ==
    [fs_files EXCEPT ![path] = text]

\* src_dir / "tools.py" and src_dir / "__init__.py" of a call
PyFile(a) ==
    [base |-> _resolve_base(a.tool_context), slug |-> AgentSlug(a.agent_name.str),
     file |-> "tools.py"]
InitFile(a) ==
    [base |-> _resolve_base(a.tool_context), slug |-> AgentSlug(a.agent_name.str),
     file |-> "__init__.py"]

\* the locals of an invocation that has not started
Locals0 ==
    [pc |-> "validate", status |-> "none", text |-> <<<<>>>>, created |-> <<>>,
     skipped |-> <<>>, i |-> 1, artifact_ids |-> <<>>]

\* the calls of the two callers: they add different functions to the same
\* module, or one of them brings a batch, an overwrite or a call that raises
StepCalls ==
    {<<Call(Str(A_DataBot), List(t1), o, NoService),
       Call(Str(a2), List(<<SpecEcho>>), FALSE, c2)>> :
        t1 \in {<<SpecPing>>, <<SpecPing, SpecBadName, SpecPingStr>>},
        o \in BOOLEAN, a2 \in {A_DataBot, A_databot}, c2 \in {NoService, RaisingService}}
    \cup {<<Call(a1, t1, FALSE, WithService),
            Call(Str(A_DataBot), List(<<SpecPing, SpecBadParam>>), FALSE, NoService)>> :
        a1 \in {Str(A_Punct), Str(<<>>)}, t1 \in {List(<<SpecPing>>), List(<<>>)}}

\* the module files the callers may find: none, or the module of an earlier
\* call that defined ping
StepFiles ==
    {NoFiles,
     define_dynamic_tools([dirs |-> {}, files |-> NoFiles], <<>>, Str(A_DataBot),
                          List(<<SpecPingParen>>), FALSE, NoService).files}

InitSteps ==
    /\ \E f \in StepFiles :
         /\ files = f
         /\ dirs = {[base |-> p.base, slug |-> p.slug] : p \in DOMAIN f}
    /\ log = <<>>
    /\ \E c \in StepCalls : args = ("p1" :> c[1] @@ "p2" :> c[2])
    /\ result = [p \in Procs |-> Locals0]
    /\ calls = [p \in Procs |-> 0]

\* lines 173-179: the two checks of the arguments, the slug and its check
Validate(p) ==
    /\ result[p].pc = "validate"
    /\ result' = [result EXCEPT ![p] =
         IF NotStr(args[p].agent_name)
         THEN [status |-> "error", error |-> "agent_name is required", pc |-> "done"]
         ELSE IF NotList(args[p].tools)
         THEN [status |-> "error", error |-> "tools must be a non-empty list", pc |-> "done"]
         ELSE IF ~ModuleIdent(AgentSlug(args[p].agent_name.str)).ok
         THEN [status |-> "raised", pc |-> "done",
               error |-> ModuleIdent(AgentSlug(args[p].agent_name.str)).exc]
         ELSE [@ EXCEPT !.pc = "mkdir"]]
    /\ UNCHANGED <<dirs, files, log, args, calls>>

\* lines 187-188: src_dir.mkdir, and __init__.py unless it exists
MakeDir(p) ==
    /\ result[p].pc = "mkdir"
    /\ dirs' = dirs \cup {[base |-> PyFile(args[p]).base, slug |-> PyFile(args[p]).slug]}
    /\ files' = IF InitFile(args[p]) \in DOMAIN files THEN files
                ELSE files @@ (InitFile(args[p]) :> <<<<>>>>)
    /\ result' = [result EXCEPT ![p].pc = "load"]
    /\ UNCHANGED <<log, args, calls>>

\* lines 190-194: the text of the module file, or the header
Load(p) ==
    /\ result[p].pc = "load"
    /\ result' = [result EXCEPT ![p].pc = "loop",
                                ![p].text = IF PyFile(args[p]) \in DOMAIN files
                                            THEN read_text(files[PyFile(args[p])])
                                            ELSE _render_header(args[p].agent_name.str)]
    /\ UNCHANGED <<dirs, files, log, args, calls>>

\* lines 196-219: one turn of the loop, on the locals only
LoopStep(p) ==
    /\ result[p].pc = "loop"
    /\ \E acc \in {ProcessSpec([text |-> result[p].text, created |-> result[p].created,
                                skipped |-> result[p].skipped, exc |-> ""],
                               args[p].tools.list[result[p].i], args[p].overwrite)} :
         result' = [result EXCEPT ![p] =
            IF acc.exc # ""
            THEN [status |-> "raised", error |-> acc.exc, pc |-> "done"]
            ELSE [@ EXCEPT !.text = acc.text, !.created = acc.created,
                           !.skipped = acc.skipped, !.i = @ + 1,
                           !.pc = IF result[p].i = Len(args[p].tools.list)
                                  THEN "open" ELSE "loop"]]
    /\ UNCHANGED <<dirs, files, log, args, calls>>

\* line 222, first half: write_text opens the file
OpenFile(p) ==
    /\ result[p].pc = "open"
    /\ files' = open_w(files, PyFile(args[p]))
    /\ result' = [result EXCEPT ![p].pc = "write"]
    /\ UNCHANGED <<dirs, log, args, calls>>

\* line 222, second half: the accumulated text is in the file
WriteFile(p) ==
    /\ result[p].pc = "write"
    /\ files' = write_text(files, PyFile(args[p]), result[p].text)
    /\ calls' = [calls EXCEPT ![p] = @ + 1]
    /\ result' = [result EXCEPT ![p].pc = "artifact"]
    /\ UNCHANGED <<dirs, log, args>>

\* lines 225-237: the artifact registration
Artifact(p) ==
    /\ result[p].pc = "artifact"
    /\ \E art \in {RegisterArtifact(args[p].tool_context, PyFile(args[p]), log)} :
         /\ log' = art.log
         /\ result' = [result EXCEPT ![p].artifact_ids = art.ids, ![p].pc = "return"]
    /\ UNCHANGED <<dirs, files, args, calls>>

\* lines 239-256: the YAML snippet and the record returned
Return(p) ==
    /\ result[p].pc = "return"
    /\ \E module_path \in {S_src_dot \o AgentSlug(args[p].agent_name.str) \o S_dot_tools} :
         result' = [result EXCEPT ![p] =
            [status |-> "success", pc |-> "done", text |-> result[p].text,
             module_path |-> module_path,
             py_file |-> PyFile(args[p]),
             created |-> result[p].created,
             skipped |-> result[p].skipped,
             artifact_ids |-> result[p].artifact_ids,
             yaml_tools_block |-> JoinLines(YamlBlocks(module_path, args[p].tools.list))]]
    /\ UNCHANGED <<dirs, files, log, args, calls>>

NextSteps ==
    \E p \in Procs :
        \/ Validate(p)
        \/ MakeDir(p)
        \/ Load(p)
        \/ LoopStep(p)
        \/ OpenFile(p)
        \/ WriteFile(p)
        \/ Artifact(p)
        \/ Return(p)

SpecSteps == InitSteps /\ [][NextSteps]_vars

----------------------------------------------------------------------------
(* The target location, as define_dynamic_tools derives it                 *)

\* an attribute that is missing from the context object
Absent == [absent |-> TRUE]

\* a context object with the two attributes, each missing, None or a string
Context(app, comp) ==
    (IF "absent" \in DOMAIN app THEN <<>> ELSE [app_base_path |-> app])
    @@ (IF "absent" \in DOMAIN comp THEN <<>> ELSE [component_base_path |-> comp])

BaseContexts ==
    {NoneVal} \cup
    {Context(app, comp) :
        app \in {Absent, NoneVal, [path |-> <<>>], [path |-> <<"/","s","r","v","/","a","p","p">>],
                 [path |-> <<"r","e","l","/","x">>], [path |-> <<"/","t","m","p","/","a","/",".",".","/","c","/">>], [path |-> <<".">>]},
        comp \in {Absent, NoneVal, [path |-> <<>>], [path |-> <<"/","s","r","v","/","c","o","m","p">>],
                  [path |-> <<".",".","/","u","p">>]}}

\* lines 178-185: the slug, the module identifier check, the base directory
\* and the paths under it
BaseOutcome(tool_context, agent_name) ==
    LET slug == AgentSlug(agent_name)
        ident == ModuleIdent(slug)
        base == _resolve_base(tool_context)
        src_dir == base \o <<<<"s","r","c">>, slug>>
    IN  IF ident.ok
        THEN [status |-> "resolved", base |-> base, src_dir |-> src_dir,
              py_file |-> Append(src_dir, <<"t","o","o","l","s",".","p","y">>),
              init_file |-> Append(src_dir, <<"_","_","i","n","i","t","_","_",".","p","y">>)]
        ELSE [status |-> "raised", error |-> ident.exc]

InitBase ==
    /\ dirs = {}
    /\ files = NoFiles
    /\ log = <<>>
    /\ calls = 0
    /\ result = [status |-> "none"]
    /\ args \in {[op |-> "_resolve_base", tool_context |-> c, agent_name |-> n] :
                    c \in BaseContexts, n \in {A_DataBot, A_databot, A_Punct}}

ResolveBase ==
    /\ result.status = "none"
    /\ result' = BaseOutcome(args.tool_context, args.agent_name)
    /\ UNCHANGED <<dirs, files, log, args, calls>>

SpecBase == InitBase /\ [][ResolveBase]_vars

----------------------------------------------------------------------------
(* The domain tools of architect_agent, hiring_manager,                    *)
(* program_manager_agent and requirements_agent                            *)
(*                                                                         *)
(* The tools keep no state: each takes its arguments and returns a record. *)
(* A string the tools only compare, look up or pass on (a key of a table,  *)
(* a label, a recommendation) is a TLA+ string; a text they search is a    *)
(* sequence of characters.  A list argument is List(l), or None where the  *)
(* signature defaults it to None.  The fields of a result that hold the     *)
(* same literal in every call are left out of the records.                  *)

\* sub in s
IsIn(sub, s) == \E i \in 1..(Len(s) - Len(sub) + 1) : SubSeq(s, i, i + Len(sub) - 1) = sub

\* v or d, for a list argument
OrList(v, d) == IF IsNone(v) THEN d ELSE IF v.list = <<>> THEN d ELSE v.list

\* d.get(key) for a dict of texts: the text as Str(text), None when the key
\* is absent
GetOrNone(d, key) == IF key \in DOMAIN d THEN [str |-> d[key]] ELSE NoneVal

\* a / b
TrueDiv(a, b) == IF b = 0 THEN Raise("ZeroDivisionError") ELSE Ok([num |-> a, den |-> b])

\* what a call leaves in result: the record returned or the exception raised
Outcome(r) == IF r.ok THEN r.val ELSE [status |-> "raised", error |-> r.exc]

\* architect_agent/tools.py

architecture_patterns ==
    [web_application |-> <<"MVC", "Layered Architecture", "Clean Architecture">>,
     microservices |-> <<"Service Mesh", "Event-Driven", "Domain-Driven Design">>,
     data_pipeline |-> <<"Lambda Architecture", "Kappa Architecture", "Batch Processing">>,
     mobile_app |-> <<"MVVM", "Clean Architecture", "Repository Pattern">>]

scale_recommendations ==
    [small |-> [infrastructure |-> "Single server or container",
                database |-> "Single database instance",
                caching |-> "In-memory caching"],
     medium |-> [infrastructure |-> "Load-balanced multi-server setup",
                 database |-> "Primary-replica database setup",
                 caching |-> "Distributed caching layer"],
     large |-> [infrastructure |-> "Auto-scaling cloud infrastructure",
                database |-> "Sharded or distributed database",
                caching |-> "Multi-tier caching strategy"],
     enterprise |-> [infrastructure |-> "Multi-region cloud deployment",
                     database |-> "Globally distributed database",
                     caching |-> "Edge caching with CDN"]]

create_architecture_diagram(requirements, system_type, scale) ==
    Ok([status |-> "success",
        architecture_type |-> system_type,
        scale |-> scale,
        recommended_patterns |-> Get(architecture_patterns, system_type, <<"Layered Architecture">>),
        infrastructure_recommendations |-> Get(scale_recommendations, scale, scale_recommendations["medium"])])

architect_analyze_requirements(project_description, constraints, performance_requirements) ==
    LET d == Lower(project_description)
    IN  Ok([status |-> "success",
            technical_analysis |->
                [scalability_needs |-> IF ~IsIn(<<"s","c","a","l","e">>, d) THEN "medium" ELSE "high",
                 security_requirements |-> IF ~IsIn(<<"s","e","c","u","r","e">>, d) THEN "standard" ELSE "enhanced",
                 integration_complexity |-> IF ~IsIn(<<"a","p","i">>, d) THEN "low" ELSE "medium",
                 real_time_needs |-> IF ~IsIn(<<"r","e","a","l","-","t","i","m","e">>, d) THEN "batch" ELSE "streaming"],
            identified_constraints |-> OrList(constraints, <<>>),
            performance_targets |-> IF IsNone(performance_requirements) THEN [k \in {} |-> 0]
                                    ELSE performance_requirements])

tech_stacks ==
    [web_application |-> [frontend |-> <<"React", "Vue.js", "Angular">>,
                          backend |-> <<"Node.js", "Python/Django", "Java/Spring">>,
                          database |-> <<"PostgreSQL", "MySQL", "MongoDB">>,
                          deployment |-> <<"Docker", "AWS/Azure", "Vercel">>],
     api_service |-> [frameworks |-> <<"FastAPI", "Express.js", "Spring Boot">>,
                      database |-> <<"PostgreSQL", "Redis", "DynamoDB">>,
                      deployment |-> <<"Kubernetes", "AWS Lambda", "Docker Compose">>],
     data_pipeline |-> [processing |-> <<"Apache Spark", "Pandas", "Dask">>,
                        storage |-> <<"Data Lakes", "Warehouse", "Time Series DB">>,
                        orchestration |-> <<"Airflow", "Prefect", "Dagster">>],
     mobile_app |-> [cross_platform |-> <<"React Native", "Flutter", "Xamarin">>,
                     native |-> <<"Swift/iOS", "Kotlin/Android">>,
                     backend |-> <<"Firebase", "Supabase", "Custom API">>]]

\* the mapping of lines 187-191, looked up without a default
budget_considerations ==
    [low |-> "Focus on open-source solutions and managed services",
     medium |-> "Balance of managed services and custom solutions",
     high |-> "Enterprise-grade tools and custom development"]

recommend_technology_stack(project_type, team_expertise, budget_constraints) ==
    Ok([status |-> "success",
        project_type |-> project_type,
        recommended_stack |-> Get(tech_stacks, project_type, tech_stacks["web_application"]),
        team_alignment |-> Len(OrList(team_expertise, <<>>)),
        budget_considerations |-> GetOrNone(budget_considerations, budget_constraints)])

\* hiring_manager/tools.py

experience_requirements ==
    ("entry" :> [years |-> "0-2 years",
                 responsibilities |-> "Learning-focused with mentorship",
                 autonomy |-> "Guided work with regular check-ins"])
    @@ ("mid-level" :> [years |-> "3-5 years",
                        responsibilities |-> "Independent project ownership",
                        autonomy |-> "Self-directed with periodic guidance"])
    @@ ("senior" :> [years |-> "5-8 years",
                     responsibilities |-> "Technical leadership and mentoring",
                     autonomy |-> "High autonomy with strategic input"])
    @@ ("lead" :> [years |-> "8+ years",
                   responsibilities |-> "Team leadership and architectural decisions",
                   autonomy |-> "Full autonomy with stakeholder management"])

create_job_description(role_title, department, experience_level, required_skills, nice_to_have_skills) ==
    LET exp_config == Get(experience_requirements, experience_level, experience_requirements["mid-level"])
    IN  Ok([status |-> "success",
            job_title |-> role_title,
            department |-> department,
            experience_level |-> experience_level,
            job_description |->
                [requirements |-> [experience |-> exp_config["years"],
                                   required_skills |-> OrList(required_skills, <<>>),
                                   nice_to_have |-> OrList(nice_to_have_skills, <<>>)],
                 work_environment |-> [autonomy_level |-> exp_config["autonomy"],
                                       team_structure |-> exp_config["responsibilities"]]]])

assessment_templates ==
    [engineering |-> [technical_skills |-> <<"Coding", "System Design", "Problem Solving">>,
                      soft_skills |-> <<"Communication", "Collaboration", "Learning Agility">>,
                      assessments |-> <<"Live coding", "System design", "Code review">>],
     design |-> [technical_skills |-> <<"Design Tools", "User Research", "Prototyping">>,
                 soft_skills |-> <<"Creativity", "User Empathy", "Presentation">>,
                 assessments |-> <<"Portfolio review", "Design challenge", "User story walkthrough">>],
     product |-> [technical_skills |-> <<"Product Strategy", "Analytics", "User Research">>,
                  soft_skills |-> <<"Leadership", "Communication", "Strategic Thinking">>,
                  assessments |-> <<"Case study", "Product strategy", "Stakeholder simulation">>],
     data |-> [technical_skills |-> <<"Statistics", "Programming", "Data Analysis">>,
               soft_skills |-> <<"Business Acumen", "Communication", "Critical Thinking">>,
               assessments |-> <<"Data analysis", "SQL queries", "Business case">>]]

stage_names ==
    <<"Initial Screening", "Technical Assessment", "Team Interview", "Final Interview", "Reference Check">>

\* estimated_timeline is the number of days the text names; interviewers of
\* a later stage is the text "<role_type> team members", held by its parts
design_screening_process(role_type, skills_to_assess, interview_stages, assessment_type) ==
    LET template == Get(assessment_templates, role_type, assessment_templates["engineering"])
        n == IF interview_stages < Len(stage_names) THEN interview_stages ELSE Len(stage_names)
        stages == [k \in 1..n |->
                     LET i == k - 1
                     IN  [stage |-> i + 1,
                          name |-> stage_names[i + 1],
                          duration |-> IF i > 0 THEN "45-60 minutes" ELSE "30 minutes",
                          focus |-> IF i = 1 THEN template["technical_skills"] ELSE template["soft_skills"],
                          interviewers |-> IF i = 0 THEN <<"Hiring manager">>
                                           ELSE <<role_type, " team members">>]]
    IN  Ok([status |-> "success",
            role_type |-> role_type,
            assessment_framework |-> template,
            interview_process |-> [total_stages |-> interview_stages,
                                   estimated_timeline |-> interview_stages * 5 - 7,
                                   stages |-> stages],
            evaluation_criteria |->
                [technical_assessment |-> [criteria |-> template["technical_skills"]],
                 behavioral_assessment |-> [criteria |-> template["soft_skills"]]]])

\* the mapping of lines 220-237, in the order a loop over its items meets it
project_skill_mapping ==
    <<[ptype |-> "web_development",
       skills |-> <<<<"F","r","o","n","t","e","n","d"," ","D","e","v","e","l","o","p","m","e","n","t">>, <<"B","a","c","k","e","n","d"," ","D","e","v","e","l","o","p","m","e","n","t">>, <<"D","a","t","a","b","a","s","e"," ","D","e","s","i","g","n">>,
                    <<"D","e","v","O","p","s">>, <<"U","I","/","U","X"," ","D","e","s","i","g","n">>, <<"P","r","o","d","u","c","t"," ","M","a","n","a","g","e","m","e","n","t">>>>],
      [ptype |-> "data_science",
       skills |-> <<<<"D","a","t","a"," ","A","n","a","l","y","s","i","s">>, <<"M","a","c","h","i","n","e"," ","L","e","a","r","n","i","n","g">>, <<"S","t","a","t","i","s","t","i","c","s">>,
                    <<"D","a","t","a"," ","E","n","g","i","n","e","e","r","i","n","g">>, <<"V","i","s","u","a","l","i","z","a","t","i","o","n">>, <<"D","o","m","a","i","n"," ","E","x","p","e","r","t","i","s","e">>>>],
      [ptype |-> "mobile_development",
       skills |-> <<<<"i","O","S"," ","D","e","v","e","l","o","p","m","e","n","t">>, <<"A","n","d","r","o","i","d"," ","D","e","v","e","l","o","p","m","e","n","t">>, <<"U","I","/","U","X"," ","D","e","s","i","g","n">>,
                    <<"B","a","c","k","e","n","d"," ","A","P","I","s">>, <<"D","e","v","O","p","s">>, <<"P","r","o","d","u","c","t"," ","M","a","n","a","g","e","m","e","n","t">>>>],
      [ptype |-> "infrastructure",
       skills |-> <<<<"C","l","o","u","d"," ","A","r","c","h","i","t","e","c","t","u","r","e">>, <<"D","e","v","O","p","s">>, <<"S","e","c","u","r","i","t","y">>,
                    <<"M","o","n","i","t","o","r","i","n","g">>, <<"A","u","t","o","m","a","t","i","o","n">>, <<"S","i","t","e"," ","R","e","l","i","a","b","i","l","i","t","y">>>>]>>

\* s.replace(" ", "_")
ReplaceSpace(s) == [i \in DOMAIN s |-> IF s[i] = " " THEN "_" ELSE s[i]]

\* lines 240-244: the first project type one of whose skills the description names
DetectProjectType(project_description) ==
    LET d == Lower(project_description)
        hit == {k \in DOMAIN project_skill_mapping :
                   \E j \in DOMAIN project_skill_mapping[k].skills :
                       IsIn(ReplaceSpace(Lower(project_skill_mapping[k].skills[j])), d)}
    IN  IF hit = {} THEN "web_development"
        ELSE project_skill_mapping[CHOOSE k \in hit : \A m \in hit : k <= m].ptype

\* the multipliers 1.5, 1.0, 0.8 and 0.7, in tenths
timeline_multiplier ==
    ("3 months" :> 15) @@ ("6 months" :> 10) @@ ("12 months" :> 8) @@ ("18+ months" :> 7)

\* l[:n], where a negative n counts from the end, and l[n:] for n >= 0
Take(l, n) ==
    IF n >= 0 THEN SubSeq(l, 1, IF n < Len(l) THEN n ELSE Len(l))
    ELSE SubSeq(l, 1, IF Len(l) + n > 0 THEN Len(l) + n ELSE 0)

Drop(l, n) == SubSeq(l, n + 1, Len(l))

\* [x for x in l if x not in other]
RECURSIVE NotIn(_, _)
NotIn(l, other) ==
    IF l = <<>> THEN <<>>
    ELSE (IF \E j \in DOMAIN other : other[j] = Head(l) THEN <<>> ELSE <<Head(l)>>)
         \o NotIn(Tail(l), other)

\* int(base_team_size * multiplier) is the integer quotient of the tenths;
\* hiring_timeline and budget_estimate are the numbers their texts name
analyze_team_needs(project_description, current_team_size, current_skills, project_timeline) ==
    LET skills == OrList(current_skills, <<>>)
        project_type == DetectProjectType(project_description)
        required_skills ==
            project_skill_mapping[CHOOSE k \in DOMAIN project_skill_mapping :
                                      project_skill_mapping[k].ptype = project_type].skills
        skill_gaps == NotIn(required_skills, skills)
        base_team_size == Len(required_skills)
        recommended_size == (base_team_size * Get(timeline_multiplier, project_timeline, 10)) \div 10
        additional_hires == IF recommended_size - current_team_size > 0
                            THEN recommended_size - current_team_size ELSE 0
        complexity_score == TrueDiv(Len(skill_gaps), Len(required_skills))
        skill_coverage == TrueDiv(Len(skills), Len(required_skills))
    IN  IF ~complexity_score.ok THEN complexity_score
        ELSE IF ~skill_coverage.ok THEN skill_coverage
        ELSE Ok([status |-> "success",
                 project_analysis |-> [detected_type |-> project_type,
                                       timeline |-> project_timeline,
                                       complexity_score |-> complexity_score.val],
                 current_state |-> [team_size |-> current_team_size,
                                    existing_skills |-> skills,
                                    skill_coverage |-> skill_coverage.val],
                 recommendations |-> [target_team_size |-> recommended_size,
                                      additional_hires |-> additional_hires,
                                      priority_skills |-> Take(skill_gaps, 3),
                                      skill_gaps |-> skill_gaps],
                 hiring_plan |-> [immediate_needs |-> Take(skill_gaps, 2),
                                  future_needs |-> IF Len(skill_gaps) > 2 THEN Drop(skill_gaps, 2) ELSE <<>>,
                                  hiring_timeline |-> additional_hires * 4 - 6,
                                  budget_estimate |-> additional_hires * 150000]])

\* program_manager_agent/tools.py
\*
\* A date is the number of days from the reading of the clock, datetime.now(),
\* which the tools take once per call; a formatted date is that number.  A
\* float argument on the 0.0-1.0 scale is its number of hundredths.

\* the days from the clock's reading to datetime.max, 9999-12-31, for a clock
\* that reads 2026-11-04
DaysLeft == 2912135

\* date + timedelta(weeks=w)
PlusWeeks(date, w) ==
    IF date + 7 * w > DaysLeft THEN Raise("OverflowError") ELSE Ok(date + 7 * w)

\* the phases of lines 31-37 in their order, each share in hundredths
phases ==
    <<[phase |-> "Planning & Discovery", share |-> 15],
      [phase |-> "Design & Architecture", share |-> 20],
      [phase |-> "Development", share |-> 45],
      [phase |-> "Testing & QA", share |-> 15],
      [phase |-> "Deployment & Launch", share |-> 5]>>

\* int(n / d) for d > 0: the quotient rounded toward zero
IntTrunc(n, d) == IF n >= 0 THEN n \div d ELSE -((-n) \div d)

\* lines 43-57: the loop over the phases from phase i on; int(duration_weeks *
\* share) is the rounded-down quotient of the hundredths
RECURSIVE Milestones(_, _, _, _)
Milestones(i, duration_weeks, current_date, milestones) ==
    IF i > Len(phases) THEN Ok([milestones |-> milestones, current_date |-> current_date])
    ELSE LET d == IntTrunc(duration_weeks * phases[i].share, 100)
             phase_duration == IF d > 1 THEN d ELSE 1
             end_date == PlusWeeks(current_date, phase_duration)
         IN  IF ~end_date.ok THEN end_date
             ELSE Milestones(i + 1, duration_weeks, end_date.val,
                             Append(milestones,
                                    [phase |-> phases[i].phase,
                                     start_date |-> current_date,
                                     end_date |-> end_date.val,
                                     duration_weeks |-> phase_duration]))

assess_project_risks(duration_weeks, team_size, priority) ==
    LET risks ==
            (IF duration_weeks > 26 THEN <<"Long project duration increases scope creep risk">> ELSE <<>>)
            \o (IF team_size < 3 THEN <<"Small team size may limit expertise and capacity">> ELSE <<>>)
            \o (IF team_size > 12 THEN <<"Large team size may create communication overhead">> ELSE <<>>)
            \o (IF priority = "critical" THEN <<"High priority may lead to rushed decisions">> ELSE <<>>)
    IN  [identified_risks |-> risks,
         risk_level |-> IF Len(risks) > 2 THEN "high" ELSE IF risks # <<>> THEN "medium" ELSE "low"]

\* the slice binds tighter than the +: only the added roles are cut
generate_team_roles(team_size) ==
    LET base_roles == <<"Tech Lead", "Developer", "Designer", "Product Manager", "QA Engineer">>
    IN  IF team_size <= 3 THEN Take(base_roles, team_size)
        ELSE IF team_size <= 8
        THEN base_roles \o Take(<<"DevOps Engineer", "Data Analyst">>, team_size)
        ELSE base_roles \o Take(<<"DevOps Engineer", "Data Analyst", "Security Engineer",
                                  "Technical Writer", "Scrum Master">>, team_size)

\* weekly_capacity is the number of hours its text names
create_project_plan(project_name, project_description, duration_weeks, team_size, priority) ==
    LET start_date == 0
        plan == Milestones(1, duration_weeks, start_date, <<>>)
    IN  IF ~plan.ok THEN plan
        ELSE Ok([status |-> "success",
                 project_overview |-> [name |-> project_name,
                                       description |-> project_description,
                                       total_duration_weeks |-> duration_weeks,
                                       team_size |-> team_size,
                                       priority |-> priority,
                                       start_date |-> start_date,
                                       estimated_end_date |-> plan.val.current_date],
                 project_phases |-> plan.val.milestones,
                 resource_allocation |-> [team_composition |-> generate_team_roles(team_size),
                                          weekly_capacity |-> team_size * 40,
                                          total_effort_hours |-> team_size * 40 * duration_weeks],
                 risk_assessment |-> assess_project_risks(duration_weeks, team_size, priority)])

\* the bands of lines 120-125 in their order, in hundredths
velocity_status ==
    <<[rating |-> "excellent", min_vel |-> 90, max_vel |-> 100],
      [rating |-> "good", min_vel |-> 75, max_vel |-> 90],
      [rating |-> "concerning", min_vel |-> 60, max_vel |-> 75],
      [rating |-> "critical", min_vel |-> 0, max_vel |-> 60]>>

\* lines 127-131: the first band that holds the velocity, "good" when none does
VelocityRating(team_velocity) ==
    LET hit == {k \in DOMAIN velocity_status :
                   velocity_status[k].min_vel <= team_velocity
                   /\ team_velocity < velocity_status[k].max_vel}
    IN  IF hit = {} THEN "good"
        ELSE velocity_status[CHOOSE k \in hit : \A m \in hit : k <= m].rating

\* completion is the percentage as a fraction
generate_progress_recommendations(velocity_rating, blocker_count, completion) ==
    LET recommendations ==
            (IF velocity_rating = "critical"
             THEN <<"Immediate team capacity review needed",
                    "Consider scope reduction or timeline extension",
                    "Identify and address team blockers">>
             ELSE IF velocity_rating = "concerning"
             THEN <<"Review team workload and capacity",
                    "Address top priority blockers",
                    "Consider additional resources">>
             ELSE <<>>)
            \o (IF blocker_count > 3 THEN <<"Focus on blocker resolution - limit new work">> ELSE <<>>)
            \o (IF completion.num < 25 * completion.den
                THEN <<"Review project scope and timeline expectations">> ELSE <<>>)
    IN  IF recommendations = <<>> THEN <<"Continue current approach - project on track">>
        ELSE recommendations

track_project_progress(project_name, current_phase, completed_tasks, total_tasks, team_velocity, blockers) ==
    LET bl == OrList(blockers, <<>>)
        ratio == TrueDiv(completed_tasks, IF total_tasks > 1 THEN total_tasks ELSE 1)
    IN  IF ~ratio.ok THEN ratio
        ELSE
        LET completion_percentage == [num |-> ratio.val.num * 100, den |-> ratio.val.den]
            velocity_rating == VelocityRating(team_velocity)
            risks ==
                (IF team_velocity < 70 THEN <<"Low team velocity - may miss deadlines">> ELSE <<>>)
                \o (IF Len(bl) > 3 THEN <<"High number of blockers affecting progress">> ELSE <<>>)
                \o (IF completion_percentage.num < 20 * completion_percentage.den
                       /\ current_phase = "Development"
                    THEN <<"Behind schedule for current phase">> ELSE <<>>)
        IN  Ok([status |-> "success",
                project_name |-> project_name,
                current_status |-> [phase |-> current_phase,
                                    completion_percentage |-> completion_percentage,
                                    completed_tasks |-> completed_tasks,
                                    remaining_tasks |-> total_tasks - completed_tasks,
                                    team_velocity |-> team_velocity,
                                    velocity_rating |-> velocity_rating],
                blockers_and_risks |-> [active_blockers |-> bl,
                                        blocker_count |-> Len(bl),
                                        identified_risks |-> risks,
                                        risk_level |-> IF Len(risks) > 2 THEN "high"
                                                       ELSE IF risks # <<>> THEN "medium" ELSE "low"],
                forecasting |-> [estimated_completion |-> IF team_velocity > 80 THEN "On track" ELSE "At risk",
                                 recommended_actions |->
                                     generate_progress_recommendations(velocity_rating, Len(bl),
                                                                       completion_percentage),
                                 next_milestone_risk |-> IF team_velocity > 75 THEN "low" ELSE "medium"],
                team_health |-> [capacity_utilization |-> team_velocity,
                                 burnout_risk |-> IF team_velocity < 100 THEN "low" ELSE "medium"]])

communication_templates ==
    [Engineering |-> [focus |-> "Technical progress, blockers, resource needs",
                      preferred_format |-> "Technical standup, detailed status",
                      frequency |-> "Daily to weekly",
                      key_metrics |-> <<"Velocity", "Code quality", "Technical debt">>],
     Product |-> [focus |-> "Feature progress, user impact, scope changes",
                  preferred_format |-> "Demo, user stories, metrics",
                  frequency |-> "Weekly to bi-weekly",
                  key_metrics |-> <<"Feature completion", "User feedback", "Product metrics">>],
     Leadership |-> [focus |-> "Timeline, budget, strategic alignment",
                     preferred_format |-> "Executive summary, dashboard",
                     frequency |-> "Weekly to monthly",
                     key_metrics |-> <<"Budget utilization", "Timeline adherence", "ROI">>],
     Customers |-> [focus |-> "Benefits, timeline, impact on their workflow",
                    preferred_format |-> "Updates, previews, training",
                    frequency |-> "Milestone-based",
                    key_metrics |-> <<"User satisfaction", "Adoption rate", "Support tickets">>]]

\* the date returned, in days from today
get_next_communication_date(frequency) ==
    IF frequency = "daily" THEN 1
    ELSE IF frequency = "weekly" THEN 7
    ELSE IF frequency = "bi-weekly" THEN 14
    ELSE 7

\* [g for g in l if g in allowed]
RECURSIVE OnlyIn(_, _)
OnlyIn(l, allowed) ==
    IF l = <<>> THEN <<>>
    ELSE (IF Head(l) \in allowed THEN <<Head(l)>> ELSE <<>>) \o OnlyIn(Tail(l), allowed)

determine_decision_stakeholders(decision, available_groups) ==
    LET decision_lower == Lower(decision)
    IN  IF IsIn(<<"t","e","c","h","n","i","c","a","l">>, decision_lower) \/ IsIn(<<"a","r","c","h","i","t","e","c","t","u","r","e">>, decision_lower)
        THEN OnlyIn(available_groups, {"Engineering", "Leadership"})
        ELSE IF IsIn(<<"f","e","a","t","u","r","e">>, decision_lower) \/ IsIn(<<"p","r","o","d","u","c","t">>, decision_lower)
        THEN OnlyIn(available_groups, {"Product", "Engineering", "Customers"})
        ELSE IF IsIn(<<"b","u","d","g","e","t">>, decision_lower) \/ IsIn(<<"t","i","m","e","l","i","n","e">>, decision_lower)
        THEN OnlyIn(available_groups, {"Leadership", "Product"})
        ELSE available_groups

manage_stakeholders(project_name, stakeholder_groups, communication_frequency, upcoming_decisions) ==
    LET groups == OrList(stakeholder_groups, <<"Engineering", "Product", "Leadership">>)
        decisions == OrList(upcoming_decisions, <<>>)
        communication_plans ==
            [k \in DOMAIN groups |->
                LET template == Get(communication_templates, groups[k],
                                    communication_templates["Engineering"])
                IN  [stakeholder_group |-> groups[k],
                     communication_focus |-> template["focus"],
                     recommended_format |-> template["preferred_format"],
                     frequency |-> template["frequency"],
                     key_metrics_to_share |-> template["key_metrics"],
                     next_communication |-> get_next_communication_date(communication_frequency)]]
        decision_framework ==
            [k \in DOMAIN decisions |->
                [decision |-> decisions[k],
                 stakeholders_needed |-> determine_decision_stakeholders(decisions[k], groups)]]
    IN  Ok([status |-> "success",
            project_name |-> project_name,
            stakeholder_analysis |-> [total_groups |-> Len(groups),
                                      communication_complexity |-> IF Len(groups) > 4 THEN "high" ELSE "medium",
                                      decision_count |-> Len(decisions)],
            communication_strategy |-> communication_plans,
            decision_management |-> [pending_decisions |-> decision_framework],
            engagement_plan |-> [regular_touchpoints |-> communication_frequency]])

\* requirements_agent/tools.py

\* any(term in s for term in terms)
AnyIn(terms, s) == \E t \in terms : IsIn(t, s)

\* the templates of lines 241-297
functional_templates ==
    [web_application |->
        [core |-> <<"User authentication and authorization",
                    "User profile management",
                    "Content creation and editing",
                    "Search and filtering capabilities",
                    "Data persistence and retrieval">>,
         ui |-> <<"Responsive web interface",
                  "Navigation menu and breadcrumbs",
                  "Form validation and error handling",
                  "Loading states and progress indicators">>,
         business |-> <<"Business rule validation",
                        "Workflow management",
                        "Reporting and analytics",
                        "Notification system">>,
         integration |-> <<"API endpoints for data access",
                           "Third-party service integration",
                           "Email service integration",
                           "Payment processing (if applicable)">>],
     mobile_app |->
        [core |-> <<"User onboarding flow",
                    "Offline data synchronization",
                    "Push notifications",
                    "Device-specific features utilization">>,
         ui |-> <<"Touch-optimized interface",
                  "Platform-specific design guidelines",
                  "Gesture-based navigation",
                  "Accessibility features">>,
         business |-> <<"App store compliance",
                        "In-app purchases (if applicable)",
                        "User engagement tracking",
                        "Performance optimization">>,
         integration |-> <<"Backend API integration",
                           "Social media integration",
                           "Analytics SDK integration",
                           "Device hardware integration">>]]

generate_functional_requirements(project_type, description) ==
    Get(functional_templates, project_type, functional_templates["web_application"])

generate_non_functional_requirements(project_type) ==
    <<"System shall support 1000+ concurrent users",
      "Response time shall be under 2 seconds for 95% of requests",
      "System uptime shall be 99.5% or higher",
      "Data shall be backed up daily with 30-day retention",
      "System shall comply with relevant security standards",
      "Interface shall be accessible (WCAG 2.1 AA compliance)",
      "System shall be scalable to handle 10x current load",
      "Application shall work on supported browsers/devices">>

stakeholder_needs ==
    ("End Users" :> <<"Intuitive and easy-to-use interface",
                      "Fast loading times and responsive design",
                      "Reliable functionality with minimal errors",
                      "Help documentation and support options">>)
    @@ ("Business" :> <<"Cost-effective solution within budget",
                        "Measurable ROI and business value",
                        "Compliance with industry regulations",
                        "Integration with existing business processes">>)
    @@ ("Technical Team" :> <<"Maintainable and well-documented code",
                              "Scalable architecture and design patterns",
                              "Comprehensive testing and quality assurance",
                              "Monitoring and logging capabilities">>)
    @@ ("Operations" :> <<"Reliable deployment and rollback procedures",
                          "Monitoring and alerting systems",
                          "Backup and disaster recovery capabilities",
                          "Performance metrics and dashboards">>)

generate_stakeholder_requirements(group, project_type, description) ==
    Get(stakeholder_needs, group, <<>>)

analyze_compliance_needs(description, requirements) ==
    LET desc_lower == Lower(description)
        potential_compliance ==
            (IF AnyIn({<<"h","e","a","l","t","h","c","a","r","e">>, <<"m","e","d","i","c","a","l">>, <<"p","a","t","i","e","n","t">>}, desc_lower) THEN <<"HIPAA">> ELSE <<>>)
            \o (IF AnyIn({<<"f","i","n","a","n","c","i","a","l">>, <<"p","a","y","m","e","n","t">>, <<"b","a","n","k","i","n","g">>}, desc_lower) THEN <<"PCI DSS">> ELSE <<>>)
            \o (IF AnyIn({<<"g","d","p","r">>, <<"p","r","i","v","a","c","y">>, <<"p","e","r","s","o","n","a","l"," ","d","a","t","a">>}, desc_lower) THEN <<"GDPR">> ELSE <<>>)
            \o (IF AnyIn({<<"g","o","v","e","r","n","m","e","n","t">>, <<"f","e","d","e","r","a","l">>, <<"s","e","c","u","r","i","t","y">>}, desc_lower) THEN <<"FedRAMP">> ELSE <<>>)
    IN  [identified_compliance |-> potential_compliance,
         additional_requirements |-> requirements,
         compliance_impact |-> IF potential_compliance # <<>> THEN "medium" ELSE "low"]

\* stakeholder_requirements is a dict: one entry per distinct group
gather_requirements(project_description, stakeholder_groups, project_type, compliance_requirements) ==
    LET groups == OrList(stakeholder_groups, <<"End Users", "Business", "Technical Team">>)
        functional_requirements == generate_functional_requirements(project_type, project_description)
        non_functional_requirements == generate_non_functional_requirements(project_type)
    IN  Ok([status |-> "success",
            project_overview |-> [description |-> project_description,
                                  type |-> project_type,
                                  stakeholder_count |-> Len(groups)],
            functional_requirements |-> [core_features |-> functional_requirements["core"],
                                         user_interface |-> functional_requirements["ui"],
                                         business_logic |-> functional_requirements["business"],
                                         integration |-> functional_requirements["integration"]],
            non_functional_requirements |-> non_functional_requirements,
            stakeholder_requirements |->
                [g \in {groups[k] : k \in DOMAIN groups} |->
                    generate_stakeholder_requirements(g, project_type, project_description)],
            compliance_requirements |->
                analyze_compliance_needs(project_description, OrList(compliance_requirements, <<>>)),
            requirement_categories |->
                [total_requirements |-> Len(functional_requirements["core"])
                                        + Len(non_functional_requirements)]])

\* sum(l)
RECURSIVE SumSeq(_)
SumSeq(l) == IF l = <<>> THEN 0 ELSE Head(l) + SumSeq(Tail(l))

\* lines 370-388: the score of one requirement before the cap
RawComplexity(req) ==
    LET r == Lower(req)
    IN  1
        + (IF AnyIn({<<"i","n","t","e","g","r","a","t","e">>, <<"a","p","i">>, <<"t","h","i","r","d","-","p","a","r","t","y">>}, r) THEN 2 ELSE 0)
        + (IF AnyIn({<<"r","e","a","l","-","t","i","m","e">>, <<"l","i","v","e">>, <<"i","n","s","t","a","n","t">>}, r) THEN 2 ELSE 0)
        + (IF AnyIn({<<"s","e","c","u","r","i","t","y">>, <<"e","n","c","r","y","p","t","i","o","n">>, <<"c","o","m","p","l","i","a","n","c","e">>}, r) THEN 1 ELSE 0)
        + (IF AnyIn({<<"w","o","r","k","f","l","o","w">>, <<"a","p","p","r","o","v","a","l">>, <<"b","u","s","i","n","e","s","s"," ","r","u","l","e">>}, r) THEN 1 ELSE 0)

\* a score without the cap
ComplexityScore_uncapped(req) == RawComplexity(req)

\* line 390: min(score, 5)
ComplexityScore(req) == IF RawComplexity(req) < 5 THEN RawComplexity(req) ELSE 5

\* average_complexity is a fraction
assess_requirement_complexity(requirements) ==
    LET complexity_scores == [k \in DOMAIN requirements |-> ComplexityScore(requirements[k])]
        average == IF complexity_scores # <<>>
                   THEN TrueDiv(SumSeq(complexity_scores), Len(complexity_scores))
                   ELSE Ok([num |-> 0, den |-> 1])
    IN  IF ~average.ok THEN average
        ELSE Ok([individual_scores |-> complexity_scores,
                 average_complexity |-> average.val,
                 high_complexity_count |->
                     Cardinality({k \in DOMAIN complexity_scores : complexity_scores[k] >= 4})])

has_dependency(req1, req2) ==
    LET req1_lower == Lower(req1)
        req2_lower == Lower(req2)
    IN  \/ IsIn(<<"a","u","t","h","e","n","t","i","c","a","t","i","o","n">>, req1_lower) /\ IsIn(<<"u","s","e","r">>, req2_lower)
        \/ IsIn(<<"d","a","t","a","b","a","s","e">>, req1_lower) /\ AnyIn({<<"s","a","v","e">>, <<"s","t","o","r","e">>, <<"r","e","t","r","i","e","v","e">>}, req2_lower)

\* the pairs of a double loop over 1..n, in the order the loops meet them
Pairs(n) == [k \in 1..(n * n) |-> [i |-> ((k - 1) \div n) + 1, j |-> ((k - 1) % n) + 1]]

identify_requirement_dependencies(requirements) ==
    LET Dependent(pr) ==
            pr.i # pr.j /\ has_dependency(requirements[pr.i], requirements[pr.j])
        found == SelectSeq(Pairs(Len(requirements)), Dependent)
        dependencies == [k \in DOMAIN found |->
                            [prerequisite |-> requirements[found[k].i],
                             dependent |-> requirements[found[k].j]]]
    IN  [dependencies |-> dependencies, dependency_count |-> Len(dependencies)]

conflict_patterns ==
    <<[positive_terms |-> {<<"r","e","a","l","-","t","i","m","e">>, <<"i","n","s","t","a","n","t">>}, negative_terms |-> {<<"b","a","t","c","h">>, <<"s","c","h","e","d","u","l","e","d">>}],
      [positive_terms |-> {<<"s","e","c","u","r","e">>, <<"e","n","c","r","y","p","t","e","d">>}, negative_terms |-> {<<"p","u","b","l","i","c">>, <<"o","p","e","n">>}],
      [positive_terms |-> {<<"s","i","m","p","l","e">>, <<"b","a","s","i","c">>}, negative_terms |-> {<<"a","d","v","a","n","c","e","d">>, <<"c","o","m","p","l","e","x">>}]>>

\* lines 432-443: a pair of requirements conflicts under pattern k
Conflicting(req1, req2, k) ==
    LET req1_lower == Lower(req1)
        req2_lower == Lower(req2)
    IN  \/ AnyIn(conflict_patterns[k].positive_terms, req1_lower)
           /\ AnyIn(conflict_patterns[k].negative_terms, req2_lower)
        \/ AnyIn(conflict_patterns[k].positive_terms, req2_lower)
           /\ AnyIn(conflict_patterns[k].negative_terms, req1_lower)

\* the loop over the pairs and, inside it, over the patterns, in the order
\* it runs
PairsAndPatterns(n) ==
    LET m == Len(conflict_patterns)
    IN  [k \in 1..(n * n * m) |->
            [i |-> ((k - 1) \div (n * m)) + 1,
             j |-> (((k - 1) \div m) % n) + 1,
             pattern |-> ((k - 1) % m) + 1]]

\* one entry per pair i < j and pattern that matches it; position_1 and
\* position_2 are not fields of the code's entries: they tell which pair of
\* the loop an entry came from
detect_requirement_conflicts(requirements) ==
    LET Hit(t) == t.i < t.j /\ Conflicting(requirements[t.i], requirements[t.j], t.pattern)
        found == SelectSeq(PairsAndPatterns(Len(requirements)), Hit)
        conflicts == [k \in DOMAIN found |->
                         [requirement_1 |-> requirements[found[k].i],
                          requirement_2 |-> requirements[found[k].j],
                          position_1 |-> found[k].i, position_2 |-> found[k].j]]
    IN  [conflicts |-> conflicts, conflict_count |-> Len(conflicts)]

\* A float of assess_feasibility is the tenth it is nearest to and the side
\* of that tenth's own float it lies on: 0.7000000000000001 is 7 tenths with
\* eps 1, 0.19999999999999998 is 2 tenths with eps -1, 0.8 is 8 tenths with
\* eps 0.
Float(tenths, eps) == [tenths |-> tenths, eps |-> eps]

\* x - 0.1 and x - 0.2 in double precision, for the floats the function meets
FloatMinus(x, s) ==
    LET table == (<<3, 0, 1>> :> Float(2, -1)) @@ (<<4, 1, 1>> :> Float(3, 1))
                 @@ (<<5, 0, 1>> :> Float(4, 0)) @@ (<<5, 0, 2>> :> Float(3, 0))
                 @@ (<<6, 1, 1>> :> Float(5, 1)) @@ (<<6, 1, 2>> :> Float(4, 1))
                 @@ (<<7, 1, 1>> :> Float(6, 1)) @@ (<<7, 1, 2>> :> Float(5, 0))
                 @@ (<<8, 0, 1>> :> Float(7, 1)) @@ (<<8, 0, 2>> :> Float(6, 1))
    IN  table[<<x.tenths, x.eps, s>>]

\* x < t/10 and x > t/10 for a float x and a literal of t tenths
FloatLess(x, t) == x.tenths < t \/ (x.tenths = t /\ x.eps < 0)
FloatGreater(x, t) == x.tenths > t \/ (x.tenths = t /\ x.eps > 0)

\* max(base_score, 0.1)
FloorTenth(base_score) == IF FloatLess(base_score, 1) THEN Float(1, 0) ELSE base_score

assess_feasibility(requirements, constraints, budget, timeline) ==
    LET s0 == Float(8, 0)
        s1 == IF Len(requirements) > 20 THEN FloatMinus(s0, 1) ELSE s0
        s2 == IF timeline < 8 THEN FloatMinus(s1, 2) ELSE s1
        s3 == IF budget = "low" THEN FloatMinus(s2, 2) ELSE s2
        base_score == IF Len(constraints) > 5 THEN FloatMinus(s3, 1) ELSE s3
        feasibility_score == FloorTenth(base_score)
    IN  [overall_score |-> feasibility_score,
         timeline_feasibility |-> IF timeline < 8 THEN "challenging" ELSE "reasonable",
         budget_feasibility |-> budget,
         technical_feasibility |-> IF FloatGreater(feasibility_score, 7) THEN "high" ELSE "medium"]

\* len(req.split())
WordCount(req) ==
    Cardinality({i \in DOMAIN req : ~IsSpace(req[i]) /\ (i = 1 \/ IsSpace(req[i - 1]))})

\* the last risk is the text "<n> requirements appear ambiguous and need
\* clarification", held by its parts
identify_requirement_risks(requirements, complexity, dependencies) ==
    LET n == Len(requirements)
        ambiguous_count ==
            Cardinality({k \in DOMAIN requirements :
                            WordCount(requirements[k]) < 5 \/ IsIn(<<"T","B","D">>, requirements[k])})
    IN  (IF complexity.average_complexity.num > 3 * complexity.average_complexity.den
         THEN <<<<"High average requirement complexity may impact development time">>>> ELSE <<>>)
        \o (IF 10 * complexity.high_complexity_count > 3 * n
            THEN <<<<"Large number of complex requirements increases implementation risk">>>> ELSE <<>>)
        \o (IF 2 * dependencies.dependency_count > n
            THEN <<<<"High number of dependencies may complicate development sequence">>>> ELSE <<>>)
        \o (IF n > 25
            THEN <<<<"Large requirement set may lead to scope creep and delivery delays">>>> ELSE <<>>)
        \o (IF ambiguous_count > 0
            THEN <<<<ambiguous_count, " requirements appear ambiguous and need clarification">>>>
            ELSE <<>>)

\* the recommendations before the four every call ends with
generate_requirement_recommendations(complexity, feasibility, risks) ==
    (IF complexity.average_complexity.num > 3 * complexity.average_complexity.den
     THEN <<"Consider breaking down complex requirements into smaller components">> ELSE <<>>)
    \o (IF FloatLess(feasibility.overall_score, 6)
        THEN <<"Review and prioritize requirements - consider phased delivery approach">> ELSE <<>>)
    \o (IF Len(risks) > 3
        THEN <<"Implement risk mitigation strategies early in the project">> ELSE <<>>)

requirements_analyze_requirements(requirements_list, project_constraints, budget_range, timeline_weeks) ==
    LET constraints == OrList(project_constraints, <<>>)
        complexity_analysis == assess_requirement_complexity(requirements_list)
    IN  IF ~complexity_analysis.ok THEN complexity_analysis
        ELSE
        LET dependency_analysis == identify_requirement_dependencies(requirements_list)
            conflict_analysis == detect_requirement_conflicts(requirements_list)
            feasibility_assessment ==
                assess_feasibility(requirements_list, constraints, budget_range, timeline_weeks)
            risks == identify_requirement_risks(requirements_list, complexity_analysis.val,
                                                dependency_analysis)
        IN  Ok([status |-> "success",
                analysis_summary |->
                    [total_requirements |-> Len(requirements_list),
                     complexity_score |-> complexity_analysis.val.average_complexity,
                     dependency_count |-> Len(dependency_analysis.dependencies),
                     conflict_count |-> Len(conflict_analysis.conflicts),
                     feasibility_score |-> feasibility_assessment.overall_score],
                complexity_breakdown |-> complexity_analysis.val,
                dependency_mapping |-> dependency_analysis,
                conflict_identification |-> conflict_analysis,
                feasibility_assessment |-> feasibility_assessment,
                risk_analysis |-> [identified_risks |-> risks,
                                   risk_level |-> IF Len(risks) > 5 THEN "high"
                                                  ELSE IF Len(risks) > 2 THEN "medium" ELSE "low"],
                recommendations |->
                    generate_requirement_recommendations(complexity_analysis.val,
                                                         feasibility_assessment, risks)])

\* personas[0] and personas[-1] are the first and the last persona
assign_persona_to_requirement(requirement, personas) ==
    LET req_lower == Lower(requirement)
        has(x) == \E k \in DOMAIN personas : personas[k] = x
    IN  IF AnyIn({<<"a","d","m","i","n">>, <<"m","a","n","a","g","e">>, <<"c","o","n","f","i","g","u","r","e">>}, req_lower)
        THEN (IF has("Administrator") THEN "Administrator" ELSE personas[1])
        ELSE IF AnyIn({<<"s","y","s","t","e","m">>, <<"a","u","t","o","m","a","t","i","c">>, <<"p","r","o","c","e","s","s">>}, req_lower)
        THEN (IF has("System") THEN "System" ELSE personas[Len(personas)])
        ELSE (IF has("End User") THEN "End User" ELSE personas[1])

\* the number of criteria: three, and four more when detailed
generate_acceptance_criteria(requirement, detail_level) ==
    <<"Given the requirement is implemented, the functionality should work as described",
      "The solution should handle normal use cases without errors",
      "The solution should provide appropriate feedback to users">>
    \o (IF detail_level = "detailed"
        THEN <<"Edge cases and error conditions are handled gracefully",
               "Performance meets specified benchmarks",
               "Security considerations are properly addressed",
               "Solution is tested and verified to work correctly">>
        ELSE <<>>)

estimate_story_points(requirement) ==
    LET req_lower == Lower(requirement)
        points == 2
                  + (IF AnyIn({<<"i","n","t","e","g","r","a","t","e">>, <<"a","p","i">>, <<"t","h","i","r","d","-","p","a","r","t","y">>}, req_lower) THEN 3 ELSE 0)
                  + (IF AnyIn({<<"c","o","m","p","l","e","x">>, <<"a","d","v","a","n","c","e","d">>, <<"m","u","l","t","i","p","l","e">>}, req_lower) THEN 2 ELSE 0)
                  + (IF AnyIn({<<"s","e","c","u","r","i","t","y">>, <<"a","u","t","h","e","n","t","i","c","a","t","i","o","n">>, <<"e","n","c","r","y","p","t","i","o","n">>}, req_lower) THEN 2 ELSE 0)
                  - (IF AnyIn({<<"s","i","m","p","l","e">>, <<"b","a","s","i","c">>, <<"d","i","s","p","l","a","y">>}, req_lower) THEN 1 ELSE 0)
        capped == IF points < 13 THEN points ELSE 13
    IN  IF capped > 1 THEN capped ELSE 1

determine_story_priority(requirement) ==
    LET req_lower == Lower(requirement)
    IN  IF AnyIn({<<"c","r","i","t","i","c","a","l">>, <<"e","s","s","e","n","t","i","a","l">>, <<"m","u","s","t">>, <<"r","e","q","u","i","r","e","d">>}, req_lower) THEN "High"
        ELSE IF AnyIn({<<"s","h","o","u","l","d">>, <<"i","m","p","o","r","t","a","n","t">>, <<"n","e","e","d","e","d">>}, req_lower) THEN "Medium"
        ELSE "Low"

extract_story_tags(requirement) ==
    LET req_lower == Lower(requirement)
        tags == (IF IsIn(<<"u","i">>, req_lower) \/ IsIn(<<"i","n","t","e","r","f","a","c","e">>, req_lower) THEN <<"ui">> ELSE <<>>)
                \o (IF IsIn(<<"a","p","i">>, req_lower) \/ IsIn(<<"i","n","t","e","g","r","a","t","i","o","n">>, req_lower)
                    THEN <<"integration">> ELSE <<>>)
                \o (IF IsIn(<<"s","e","c","u","r","i","t","y">>, req_lower) THEN <<"security">> ELSE <<>>)
                \o (IF IsIn(<<"p","e","r","f","o","r","m","a","n","c","e">>, req_lower) THEN <<"performance">> ELSE <<>>)
                \o (IF IsIn(<<"d","a","t","a">>, req_lower) \/ IsIn(<<"d","a","t","a","b","a","s","e">>, req_lower) THEN <<"data">> ELSE <<>>)
    IN  IF tags = <<>> THEN <<"general">> ELSE tags

\* priority_distribution is a dict: one count per priority that occurs
calculate_story_statistics(user_stories) ==
    LET total_stories == Len(user_stories)
        total_points == SumSeq([k \in DOMAIN user_stories |-> user_stories[k].story_points])
        average == IF total_stories > 0 THEN TrueDiv(total_points, total_stories)
                   ELSE Ok([num |-> 0, den |-> 1])
    IN  IF ~average.ok THEN average
        ELSE Ok([total_stories |-> total_stories,
                 total_story_points |-> total_points,
                 average_story_points |-> average.val,
                 priority_distribution |->
                     [pr \in {user_stories[k].priority : k \in DOMAIN user_stories} |->
                         Cardinality({k \in DOMAIN user_stories : user_stories[k].priority = pr})]])

\* The texts built from the requirement (id, title, story) and the grouping
\* of the stories by theme, which reads the story text, are left out.
create_user_stories(requirements, user_personas, acceptance_criteria_detail, story_format) ==
    LET personas == OrList(user_personas, <<"End User", "Administrator", "System">>)
        user_stories ==
            [k \in DOMAIN requirements |->
                [number |-> k,
                 persona |-> assign_persona_to_requirement(requirements[k], personas),
                 acceptance_criteria |->
                     generate_acceptance_criteria(requirements[k], acceptance_criteria_detail),
                 story_points |-> estimate_story_points(requirements[k]),
                 priority |-> determine_story_priority(requirements[k]),
                 original_requirement |-> requirements[k],
                 tags |-> extract_story_tags(requirements[k])]]
        story_statistics == calculate_story_statistics(user_stories)
        average_acceptance_criteria ==
            TrueDiv(SumSeq([k \in DOMAIN user_stories |-> Len(user_stories[k].acceptance_criteria)]),
                    Len(user_stories))
    IN  IF ~story_statistics.ok THEN story_statistics
        ELSE IF ~average_acceptance_criteria.ok THEN average_acceptance_criteria
        ELSE Ok([status |-> "success",
                 story_overview |->
                     [total_stories |-> Len(user_stories),
                      personas_used |-> {user_stories[k].persona : k \in DOMAIN user_stories},
                      format |-> story_format,
                      total_story_points |->
                          SumSeq([k \in DOMAIN user_stories |-> user_stories[k].story_points])],
                 user_stories |-> user_stories,
                 statistics |-> story_statistics.val,
                 quality_metrics |->
                     [average_acceptance_criteria |-> average_acceptance_criteria.val]])

\* The calls the model makes of the domain tools

D_empty == <<>>
D_shop == <<"A"," ","w","e","b"," ","s","h","o","p">>
D_secure == <<"S","e","c","u","r","e"," ","r","e","a","l","-","t","i","m","e"," ","A","P","I"," ","a","t"," ","s","c","a","l","e"," ","f","o","r"," ","p","a","t","i","e","n","t"," ","d","a","t","a">>
D_data == <<"A"," ","d","a","t","a","_","a","n","a","l","y","s","i","s"," ","d","a","s","h","b","o","a","r","d"," ","w","i","t","h"," ","D","e","v","O","p","s"," ","s","u","p","p","o","r","t">>
D_mobile == <<"A","n"," ","i","o","s","_","d","e","v","e","l","o","p","m","e","n","t"," ","a","n","d"," ","d","e","v","o","p","s"," ","j","o","b">>

R_simple == <<"s","i","m","p","l","e"," ","d","i","s","p","l","a","y">>
R_auth == <<"U","s","e","r"," ","a","u","t","h","e","n","t","i","c","a","t","i","o","n"," ","w","i","t","h"," ","t","h","i","r","d","-","p","a","r","t","y"," ","A","P","I"," ","i","n","t","e","g","r","a","t","i","o","n">>
R_rt == <<"R","e","a","l","-","t","i","m","e"," ","s","e","c","u","r","e"," ","w","o","r","k","f","l","o","w"," ","w","i","t","h"," ","e","n","c","r","y","p","t","i","o","n"," ","a","n","d"," ","l","i","v","e"," ","A","P","I"," ","a","p","p","r","o","v","a","l">>
R_batch == <<"A","d","v","a","n","c","e","d"," ","b","a","t","c","h"," ","e","x","p","o","r","t"," ","o","f"," ","p","u","b","l","i","c"," ","d","a","t","a"," ","m","u","s","t"," ","b","e"," ","s","c","h","e","d","u","l","e","d">>
R_max == <<"I","n","t","e","g","r","a","t","e"," ","m","u","l","t","i","p","l","e"," ","c","o","m","p","l","e","x"," ","s","e","c","u","r","i","t","y"," ","A","P","I">>
R_db == <<"T","h","e"," ","d","a","t","a","b","a","s","e"," ","s","h","o","u","l","d"," ","s","t","o","r","e"," ","u","s","e","r"," ","r","e","c","o","r","d","s"," ","T","B","D">>
R_x == <<"x">>

RequirementLists ==
    {<<>>, <<R_simple>>, <<R_rt>>, <<R_auth, R_rt, R_batch>>,
     <<R_rt, R_batch, R_simple, R_max>>, <<R_db, R_auth, R_db>>,
     [k \in 1..21 |-> R_x], [k \in 1..26 |-> R_x]}

\* an optional list argument: absent, empty, or the list l
Optional(l) == {NoneVal, List(<<>>), List(l)}

ToolCalls ==
    {[op |-> "create_architecture_diagram", requirements |-> D_shop, system_type |-> t, scale |-> s] :
        t \in {"web_application", "microservices", "data_pipeline", "mobile_app", "desktop"},
        s \in {"small", "medium", "large", "enterprise", "galactic"}}
    \cup
    {[op |-> "architect_analyze_requirements", project_description |-> d, constraints |-> c,
      performance_requirements |-> q] :
        d \in {D_empty, D_shop, D_secure},
        c \in Optional(<<"No cloud">>),
        q \in {NoneVal, [latency_ms |-> 200]}}
    \cup
    {[op |-> "recommend_technology_stack", project_type |-> t, team_expertise |-> e,
      budget_constraints |-> b] :
        t \in {"web_application", "api_service", "data_pipeline", "mobile_app", "desktop"},
        e \in Optional(<<"Python", "React">>),
        b \in {"low", "medium", "high", "unlimited"}}
    \cup
    {[op |-> "create_job_description", role_title |-> "Engineer", department |-> "Platform",
      experience_level |-> x, required_skills |-> r, nice_to_have_skills |-> NoneVal] :
        x \in {"entry", "mid-level", "senior", "lead", "principal"},
        r \in Optional(<<"Python">>)}
    \cup
    {[op |-> "design_screening_process", role_type |-> r, skills_to_assess |-> NoneVal,
      interview_stages |-> n, assessment_type |-> "technical"] :
        r \in {"engineering", "design", "product", "data", "sales"},
        n \in {-1, 0, 1, 3, 5, 7}}
    \cup
    {[op |-> "analyze_team_needs", project_description |-> d, current_team_size |-> n,
      current_skills |-> s, project_timeline |-> t] :
        d \in {D_empty, D_data, D_mobile},
        n \in {0, 10},
        s \in Optional(<<<<"D","e","v","O","p","s">>, <<"S","t","a","t","i","s","t","i","c","s">>>>),
        t \in {"3 months", "6 months", "12 months", "18+ months", "2 years"}}
    \cup
    {[op |-> "create_project_plan", project_name |-> "Apollo", project_description |-> D_shop,
      duration_weeks |-> w, team_size |-> n, priority |-> p] :
        w \in {-5, 0, 4, 5, 12, 30, 500000},
        n \in {-1, 0, 2, 5, 9, 13},
        p \in {"medium", "critical"}}
    \cup
    {[op |-> "track_project_progress", project_name |-> "Apollo", current_phase |-> ph,
      completed_tasks |-> t.completed, total_tasks |-> t.total, team_velocity |-> v, blockers |-> b] :
        ph \in {"Development", "Testing"},
        t \in {[completed |-> 0, total |-> 0], [completed |-> 0, total |-> 100],
               [completed |-> 30, total |-> 100], [completed |-> 5, total |-> -2]},
        v \in {0, 59, 60, 74, 75, 90, 100, 120},
        b \in Optional(<<"b1", "b2", "b3", "b4">>)}
    \cup
    {[op |-> "manage_stakeholders", project_name |-> "Apollo", stakeholder_groups |-> g,
      communication_frequency |-> f, upcoming_decisions |-> u] :
        g \in Optional(<<"Engineering", "Customers">>)
              \cup {List(<<"Investors">>),
                    List(<<"Product", "Leadership", "Customers", "Engineering", "Investors">>)},
        f \in {"daily", "weekly", "bi-weekly", "monthly"},
        u \in Optional(<<<<"T","e","c","h","n","i","c","a","l"," ","d","e","b","t">>, <<"B","u","d","g","e","t"," ","f","o","r"," ","t","h","e"," ","p","r","o","d","u","c","t"," ","l","a","u","n","c","h">>, <<"O","f","f","i","c","e"," ","m","o","v","e">>>>)}
    \cup
    {[op |-> "gather_requirements", project_description |-> d, stakeholder_groups |-> g,
      project_type |-> t, compliance_requirements |-> c] :
        d \in {D_shop, D_secure},
        g \in Optional(<<"End Users", "Operations">>)
              \cup {List(<<"Investors">>), List(<<"Business", "Technical Team", "Business">>)},
        t \in {"web_application", "mobile_app", "desktop"},
        c \in Optional(<<"SOC 2">>)}
    \cup
    {[op |-> "requirements_analyze_requirements", requirements_list |-> r,
      project_constraints |-> c, budget_range |-> b, timeline_weeks |-> w] :
        r \in RequirementLists,
        c \in Optional(<<"c1", "c2", "c3", "c4", "c5", "c6">>),
        b \in {"low", "medium"},
        w \in {0, 7, 8, 12}}
    \cup
    {[op |-> "create_user_stories", requirements |-> r, user_personas |-> u,
      acceptance_criteria_detail |-> a, story_format |-> "agile"] :
        r \in RequirementLists,
        u \in Optional(<<"Guest", "Auditor">>),
        a \in {"standard", "detailed"}}

InitTools ==
    /\ dirs = {}
    /\ files = NoFiles
    /\ log = <<>>
    /\ calls = 0
    /\ result = [status |-> "none"]
    /\ args \in ToolCalls

\* the call named op is made and leaves r in result
Called(op, r) ==
    /\ args.op = op
    /\ result.status = "none"
    /\ result' = Outcome(r)
    /\ UNCHANGED <<dirs, files, log, args, calls>>

CreateArchitectureDiagram ==
    /\ args.op = "create_architecture_diagram"
    /\ \E r \in {create_architecture_diagram(args.requirements, args.system_type, args.scale)} :
          Called("create_architecture_diagram", r)

ArchitectAnalyzeRequirements ==
    /\ args.op = "architect_analyze_requirements"
    /\ \E r \in {architect_analyze_requirements(args.project_description, args.constraints,
                                                args.performance_requirements)} :
          Called("architect_analyze_requirements", r)

RecommendTechnologyStack ==
    /\ args.op = "recommend_technology_stack"
    /\ \E r \in {recommend_technology_stack(args.project_type, args.team_expertise,
                                            args.budget_constraints)} :
          Called("recommend_technology_stack", r)

CreateJobDescription ==
    /\ args.op = "create_job_description"
    /\ \E r \in {create_job_description(args.role_title, args.department, args.experience_level,
                                        args.required_skills, args.nice_to_have_skills)} :
          Called("create_job_description", r)

DesignScreeningProcess ==
    /\ args.op = "design_screening_process"
    /\ \E r \in {design_screening_process(args.role_type, args.skills_to_assess,
                                          args.interview_stages, args.assessment_type)} :
          Called("design_screening_process", r)

AnalyzeTeamNeeds ==
    /\ args.op = "analyze_team_needs"
    /\ \E r \in {analyze_team_needs(args.project_description, args.current_team_size,
                                    args.current_skills, args.project_timeline)} :
          Called("analyze_team_needs", r)

CreateProjectPlan ==
    /\ args.op = "create_project_plan"
    /\ \E r \in {create_project_plan(args.project_name, args.project_description,
                                     args.duration_weeks, args.team_size, args.priority)} :
          Called("create_project_plan", r)

TrackProjectProgress ==
    /\ args.op = "track_project_progress"
    /\ \E r \in {track_project_progress(args.project_name, args.current_phase, args.completed_tasks,
                                        args.total_tasks, args.team_velocity, args.blockers)} :
          Called("track_project_progress", r)

ManageStakeholders ==
    /\ args.op = "manage_stakeholders"
    /\ \E r \in {manage_stakeholders(args.project_name, args.stakeholder_groups,
                                     args.communication_frequency, args.upcoming_decisions)} :
          Called("manage_stakeholders", r)

GatherRequirements ==
    /\ args.op = "gather_requirements"
    /\ \E r \in {gather_requirements(args.project_description, args.stakeholder_groups,
                                     args.project_type, args.compliance_requirements)} :
          Called("gather_requirements", r)

RequirementsAnalyzeRequirements ==
    /\ args.op = "requirements_analyze_requirements"
    /\ \E r \in {requirements_analyze_requirements(args.requirements_list, args.project_constraints,
                                                   args.budget_range, args.timeline_weeks)} :
          Called("requirements_analyze_requirements", r)

CreateUserStories ==
    /\ args.op = "create_user_stories"
    /\ \E r \in {create_user_stories(args.requirements, args.user_personas,
                                     args.acceptance_criteria_detail, args.story_format)} :
          Called("create_user_stories", r)

NextTools ==
    \/ CreateArchitectureDiagram
    \/ ArchitectAnalyzeRequirements
    \/ RecommendTechnologyStack
    \/ CreateJobDescription
    \/ DesignScreeningProcess
    \/ AnalyzeTeamNeeds
    \/ CreateProjectPlan
    \/ TrackProjectProgress
    \/ ManageStakeholders
    \/ GatherRequirements
    \/ RequirementsAnalyzeRequirements
    \/ CreateUserStories

SpecTools == InitTools /\ [][NextTools]_vars

----------------------------------------------------------------------------
(* What the claims speak of                                                *)

\* the names of the functions the model generates
FunctionNames == {N_ping, N_echo}

\* a valid identifier: a letter or underscore, then letters, digits, underscores
IsIdentifier(s) ==
    /\ s # <<>>
    /\ s[1] \in LowerSet \cup UpperSet \cup {"_"}
    /\ \A i \in DOMAIN s : s[i] \in LowerSet \cup UpperSet \cup DigitSet \cup {"_"}

\* a top-level line "async def <fname>("
IsDefLineOf(line, fname) == StartsWith(line, <<"a","s","y","n","c"," ","d","e","f"," ">> \o fname \o <<"(">>)

\* the number of blocks of fname in a module text
BlockCount(text, fname) == Cardinality({k \in DOMAIN text : IsDefLineOf(text[k], fname)})

\* the number of function blocks in a module text
AsyncDefCount(text) == Cardinality({k \in DOMAIN text : StartsWith(text[k], <<"a","s","y","n","c"," ","d","e","f"," ">>)})

\* sub occurs in line
Contains(line, sub) ==
    \E i \in 1..(Len(line) - Len(sub) + 1) : SubSeq(line, i, i + Len(sub) - 1) = sub

\* the lines of block stand in text, one after the other
ContainsBlock(text, block) ==
    LET ls == SubSeq(block, 1, Len(block) - 1)
    IN  \E k \in 1..(Len(text) - Len(ls) + 1) : SubSeq(text, k, k + Len(ls) - 1) = ls

\* the state holds the outcome of a define_dynamic_tools call
IsCall(a) == a.op = "define_dynamic_tools"

\* a call with a non-empty agent name and a non-empty list of specs
PassesValidation(a) ==
    /\ IsCall(a)
    /\ ~IsNone(a.agent_name) /\ a.agent_name.str # <<>>
    /\ ~IsNone(a.tools) /\ a.tools.list # <<>>

\* the spec's function name is present and an identifier
ValidFunctionName(spec) ==
    "function_name" \in DOMAIN spec /\ IsIdentifier(spec.function_name)

\* a valid-named spec: the function name and every parameter name are identifiers
ValidNamed(spec) ==
    /\ ValidFunctionName(spec)
    /\ "params" \in DOMAIN spec =>
         \A i \in DOMAIN spec.params :
            "name" \in DOMAIN spec.params[i] /\ IsIdentifier(spec.params[i].name)

\* the function names of a batch, in input order
NamesOf(batch) == [i \in DOMAIN batch |-> batch[i].function_name]

\* the names of a batch are pairwise distinct
DistinctNames(batch) ==
    \A i, j \in DOMAIN batch : i # j => batch[i].function_name # batch[j].function_name

\* the module file a call of the model addresses
TargetFile(a) ==
    [base |-> Parents(ModuleFile, 2), slug |-> AgentSlug(a.agent_name.str), file |-> "tools.py"]

\* the return annotation of a definition line: what stands between the last
\* "-> " and the final ":"
ReturnAnnotation(line) ==
    LET at == {i \in 1..(Len(line) - 2) : SubSeq(line, i, i + 2) = <<"-",">"," ">>}
        last == CHOOSE i \in at : \A j \in at : j <= i
    IN  SubSeq(line, last + 3, Len(line) - 1)

\* the return type a spec declares ("Any" when it declares none)
DeclaredReturn(spec) ==
    IF "returns" \in DOMAIN spec /\ "type" \in DOMAIN spec.returns
    THEN spec.returns.type ELSE <<"A","n","y">>

----------------------------------------------------------------------------
(* C1: after any sequence of successful calls from an absent tools.py, the *)
(* module file holds at most one "async def <name>(" block for every       *)
(* function name.                                                          *)
C1_AtMostOneBlockPerName ==
    \A p \in DOMAIN files :
        p.file = "tools.py" =>
            \A f \in FunctionNames : BlockCount(files[p], f) <= 1

(* C2: a call repeated with the same agent name, the same list of          *)
(* valid-named specs and overwrite=false returns created = [] and every    *)
(* spec name in skipped, and leaves the file text as the first call left   *)
(* it.                                                                     *)
C2_Idempotent ==
    [][(/\ PassesValidation(args)
        /\ IsCall(args')
        /\ args'.agent_name = args.agent_name
        /\ args'.tools = args.tools
        /\ ~args.overwrite /\ ~args'.overwrite
        /\ \A i \in DOMAIN args.tools.list : ValidNamed(args.tools.list[i]))
       => (/\ result'.status = "success"
           /\ result'.created = <<>>
           /\ \A i \in DOMAIN args.tools.list :
                 args.tools.list[i].function_name \in Range(result'.skipped)
           /\ files' = files)]_vars

(* C3: when the file holds a block for f and a call with overwrite=true    *)
(* brings a spec for f with another declared return type, the file         *)
(* afterwards holds exactly one block for f, that block is the rendering   *)
(* of the new spec, and nothing of the old block remains.                  *)
C3_OverwriteReplaces ==
    [][(/\ PassesValidation(args')
        /\ args'.overwrite
        /\ TargetFile(args') \in DOMAIN files)
       => \A i \in DOMAIN args'.tools.list :
            LET spec == args'.tools.list[i]
                f == spec.function_name
                old == files[TargetFile(args')]
                new == files'[TargetFile(args')]
                block == _render_function_block(spec).val
            IN  (/\ ValidNamed(spec)
                 /\ \A j \in DOMAIN args'.tools.list : j # i => ~ValidFunctionName(args'.tools.list[j]) \/ args'.tools.list[j].function_name # f
                 /\ \A j \in DOMAIN args'.tools.list : ValidNamed(args'.tools.list[j])
                 /\ BlockCount(old, f) >= 1
                 /\ \A k \in DOMAIN old :
                       IsDefLineOf(old[k], f) => ReturnAnnotation(old[k]) # DeclaredReturn(spec))
                => (/\ BlockCount(new, f) = 1
                    /\ ContainsBlock(new, block)
                    /\ \A k \in DOMAIN new :
                          IsDefLineOf(new[k], f)
                             => ReturnAnnotation(new[k]) = DeclaredReturn(spec))]_vars

(* C4: in a batch where one spec's function name fails the identifier      *)
(* pattern or is missing, and the others have valid names not yet in the    *)
(* file, the call returns success, created lists exactly the valid names in *)
(* input order, skipped has one entry, for the invalid spec, carrying a     *)
(* reason, and the file gains one block per valid spec and none for the     *)
(* invalid one.                                                             *)
C4_PartialFailureIsolated ==
    [][(/\ PassesValidation(args')
        /\ LET batch == args'.tools.list
               bad == {i \in DOMAIN batch : ~ValidFunctionName(batch[i])}
               good == SelectSeq(batch, ValidFunctionName)
               old == IF TargetFile(args') \in DOMAIN files
                      THEN files[TargetFile(args')] ELSE <<>>
           IN  /\ Cardinality(bad) = 1
               /\ \A i \in DOMAIN good : ValidNamed(good[i])
               /\ DistinctNames(good)
               /\ \A i \in DOMAIN good : BlockCount(old, good[i].function_name) = 0)
       => LET batch == args'.tools.list
              good == SelectSeq(batch, ValidFunctionName)
              old == IF TargetFile(args') \in DOMAIN files
                     THEN files[TargetFile(args')] ELSE <<>>
          IN  /\ result'.status = "success"
              /\ result'.created = NamesOf(good)
              /\ Len(result'.skipped) = 1
              /\ Contains(result'.skipped[1], <<"(","i","n","v","a","l","i","d",":"," ">>)
              /\ LET new == files'[result'.py_file]
                 IN  /\ \A i \in DOMAIN good : BlockCount(new, good[i].function_name) = 1
                     /\ AsyncDefCount(new) = AsyncDefCount(old) + Len(good)]_vars

(* C5: every call with a non-empty agent name and a non-empty list of       *)
(* specs returns status "success" and never raises; status "error" occurs   *)
(* only for an empty agent name or an empty list.                           *)
C5_NeverRaises ==
    IsCall(args) =>
        /\ result.status \in {"success", "error"}
        /\ result.status = "success" <=> PassesValidation(args)

(* C6: with an empty or absent agent name, or an empty or absent list of   *)
(* specs, the call returns status "error" with a message and has created    *)
(* or modified no directory and no file and has not called the artifact     *)
(* service.                                                                 *)
C6_ErrorWithoutEffect ==
    [][(IsCall(args') /\ ~PassesValidation(args'))
       => (/\ result'.status = "error"
           /\ "error" \in DOMAIN result' /\ result'.error # ""
           /\ dirs' = dirs
           /\ files' = files
           /\ log' = log)]_vars

\* an error call on a file system that holds a generated module, with an
\* artifact service at hand
C6_Witness ==
    /\ IsCall(args)
    /\ ~PassesValidation(args)
    /\ result.status = "error"
    /\ args.tool_context = WithService
    /\ \E p \in DOMAIN files : p.file = "tools.py"

(* C7: for every non-empty agent name the slug is non-empty, lower-case,   *)
(* made of [a-z0-9_] only and a valid identifier; "My Cool Agent!!" gives   *)
(* my_cool_agent.                                                           *)
C7_SlugIsIdentifier ==
    (args.op = "_slugify" /\ result.status # "none") =>
        /\ result.status = "slug"
        /\ result.slug # <<>>
        /\ \A i \in DOMAIN result.slug : result.slug[i] \in LowerSet \cup DigitSet \cup {"_"}
        /\ IsIdentifier(result.slug)
        /\ args.agent_name = <<"M","y"," ","C","o","o","l"," ","A","g","e","n","t","!","!">> => result.slug = <<"m","y","_","c","o","o","l","_","a","g","e","n","t">>

\* "name: type" or "name: type = default", as the signature shows a parameter
ParamText(p) ==
    p.name \o <<":"," ">> \o (IF "type" \in DOMAIN p THEN p.type ELSE <<"A","n","y">>)
    \o (IF "default" \in DOMAIN p THEN <<" ","="," ">> \o Repr(p.default) ELSE <<>>)

HasDefault(p) == "default" \in DOMAIN p
HasNoDefault(p) == "default" \notin DOMAIN p

(* C8: the rendered signature lists the parameters without a default       *)
(* first, in input order, then the parameters with a default, in input      *)
(* order, each with its literal, then tool_context and tool_config, both    *)
(* defaulting to None.                                                      *)
C8_RequiredBeforeOptional ==
    (args.op = "_render_function_block" /\ result.status = "rendered") =>
        LET params == args.spec.params
            required == SelectSeq(params, HasNoDefault)
            optional == SelectSeq(params, HasDefault)
            shown == [i \in DOMAIN required |-> ParamText(required[i])]
                     \o [i \in DOMAIN optional |-> ParamText(optional[i])]
                     \o <<<<"t","o","o","l","_","c","o","n","t","e","x","t","=","N","o","n","e">>, <<"t","o","o","l","_","c","o","n","f","i","g",":"," ","O","p","t","i","o","n","a","l","[","D","i","c","t","[","s","t","r",","," ","A","n","y","]","]"," ","="," ","N","o","n","e">>>>
        IN  StartsWith(result.block[1],
                       <<"a","s","y","n","c"," ","d","e","f"," ">> \o args.spec.function_name \o <<"(">>
                       \o JoinComma(shown) \o <<")"," ","-",">"," ">>)

\* the spec brings no body
NoBody(spec) == "body" \notin DOMAIN spec \/ spec.body = <<<<>>>>

\* the lines of a rendered block after its log line
BodyOf(block, fname) ==
    LET k == CHOOSE k \in DOMAIN block : block[k] = <<" "," "," "," ","l","o","g",".","i","n","f","o","(","\"","[">> \o fname \o <<"]"," ","c","a","l","l","e","d","\"",")">>
    IN  SubSeq(block, k + 1, Len(block))

\* the stub returns a mapping that holds a status key
MappingStub(body) ==
    /\ StartsWith(body[1], <<" "," "," "," ","r","e","s","u","l","t"," ","="," ","{">>)
    /\ Contains(body[1], <<"\"","s","t","a","t","u","s","\"",":">>)
    /\ body[2] = <<" "," "," "," ","r","e","t","u","r","n"," ","r","e","s","u","l","t">>

\* the stub returns a placeholder text value
TextStub(body) ==
    /\ StartsWith(body[1], <<" "," "," "," ","r","e","t","u","r","n"," ","\"">>)
    /\ body[1][Len(body[1])] = "\""

(* C9, as stated: without a body the stub returns a mapping with a status   *)
(* key when returns.type is "dict", and a placeholder text for any other    *)
(* declared return type or none.                                            *)
C9_DefaultBodyOnlyDict ==
    (args.op = "_render_function_block" /\ result.status = "rendered" /\ NoBody(args.spec)) =>
        LET body == BodyOf(result.block, args.spec.function_name)
        IN  IF "returns" \in DOMAIN args.spec /\ "type" \in DOMAIN args.spec.returns
               /\ args.spec.returns.type = <<"d","i","c","t">>
            THEN MappingStub(body) ELSE TextStub(body)

(* C9, amended: without a body the stub returns a mapping with a status    *)
(* key when returns.type, lower-cased, is "dict" or "mapping", and a        *)
(* placeholder text for any other declared type, an empty type or none.     *)
C9_DefaultBodyShape ==
    (args.op = "_render_function_block" /\ result.status = "rendered" /\ NoBody(args.spec)) =>
        LET body == BodyOf(result.block, args.spec.function_name)
        IN  IF "returns" \in DOMAIN args.spec /\ "type" \in DOMAIN args.spec.returns
               /\ Lower(args.spec.returns.type) \in {<<"d","i","c","t">>, <<"m","a","p","p","i","n","g">>}
            THEN MappingStub(body) ELSE TextStub(body)

\* a spec without body that declares "Mapping" got the mapping stub
C9_Witness ==
    /\ args.op = "_render_function_block"
    /\ result.status = "rendered"
    /\ NoBody(args.spec)
    /\ "returns" \in DOMAIN args.spec /\ "type" \in DOMAIN args.spec.returns
    /\ args.spec.returns.type = <<"M","a","p","p","i","n","g">>
    /\ MappingStub(BodyOf(result.block, args.spec.function_name))

\* the header and the blocks of a batch, one after the other
RECURSIVE HeaderAndBlocks(_, _)
HeaderAndBlocks(text, batch) ==
    IF batch = <<>> THEN text
    ELSE HeaderAndBlocks(Concat(text, _render_function_block(Head(batch)).val), Tail(batch))

(* C10: on a fresh target directory, a call with overwrite=false and a      *)
(* batch of distinct valid-named specs returns success, module_path         *)
(* src.<slug>.tools (data_bot for "Data Bot"), created equal to the spec    *)
(* names in input order and skipped = [], and writes the header followed by *)
(* exactly one block per spec in input order.                               *)
C10_FreshDirectory ==
    [][(/\ PassesValidation(args')
        /\ ~args'.overwrite
        /\ TargetFile(args') \notin DOMAIN files
        /\ \A i \in DOMAIN args'.tools.list : ValidNamed(args'.tools.list[i])
        /\ DistinctNames(args'.tools.list))
       => (/\ result'.status = "success"
           /\ result'.module_path = <<"s","r","c",".">> \o result'.py_file.slug \o <<".","t","o","o","l","s">>
           /\ args'.agent_name.str = <<"D","a","t","a"," ","B","o","t">> => result'.py_file.slug = <<"d","a","t","a","_","b","o","t">>
           /\ result'.created = NamesOf(args'.tools.list)
           /\ result'.skipped = <<>>
           /\ files'[result'.py_file]
                = HeaderAndBlocks(_render_header(args'.agent_name.str), args'.tools.list))]_vars

\* the specs of the call whose function name passes the identifier pattern
NamedSpecs(a) == SelectSeq(a.tools.list, ValidFunctionName)

\* the description a stanza shows for a spec: its own, or "<name> tool."
ShownDescription(spec) ==
    IF "description" \in DOMAIN spec /\ spec.description # <<>>
    THEN spec.description ELSE spec.function_name \o <<" ","t","o","o","l",".">>

(* C11: the snippet yaml_tools_block of a returned call holds exactly one  *)
(* stanza per input spec whose function name is an identifier, in input     *)
(* order, whether the spec was created or skipped, and none for a spec with *)
(* an invalid name; each stanza names src.<slug>.tools, the function name   *)
(* and the spec's description, or "<name> tool." when that is absent or     *)
(* empty.                                                                   *)
C11_YamlStanzaPerNamedSpec ==
    (IsCall(args) /\ result.status = "success") =>
        LET y == result.yaml_tools_block
            named == NamedSpecs(args)
            starts == {k \in DOMAIN y : y[k] = <<"-"," ","t","o","o","l","_","t","y","p","e",":"," ","p","y","t","h","o","n">>}
        IN  /\ Cardinality(starts) = Len(named)
            /\ Cardinality({k \in DOMAIN y : StartsWith(y[k], <<" "," ","f","u","n","c","t","i","o","n","_","n","a","m","e",":"," ">>)}) = Len(named)
            /\ \A i \in DOMAIN named :
                 LET k == 6 * (i - 1) + 1
                 IN  /\ k \in starts
                     /\ y[k + 1] = <<" "," ","c","o","m","p","o","n","e","n","t","_","m","o","d","u","l","e",":"," ","\"","s","r","c",".">>
                                   \o AgentSlug(args.agent_name.str) \o <<".","t","o","o","l","s","\"">>
                     /\ y[k + 3] = <<" "," ","f","u","n","c","t","i","o","n","_","n","a","m","e",":"," ","\"">> \o named[i].function_name \o <<"\"">>
                     /\ y[k + 4] = <<" "," ","t","o","o","l","_","d","e","s","c","r","i","p","t","i","o","n",":"," ","\"">> \o ShownDescription(named[i]) \o <<"\"">>

\* a returned call whose batch holds a spec already present, a spec with an
\* invalid name and a spec that was created
C11_Witness ==
    /\ IsCall(args) /\ result.status = "success"
    /\ Len(args.tools.list) = 3
    /\ Len(NamedSpecs(args)) = 2
    /\ Len(result.created) = 1
    /\ Len(result.skipped) = 2
    /\ \E i \in DOMAIN args.tools.list : "description" \notin DOMAIN args.tools.list[i]

\* the context carries an artifact service that raises
ServiceRaises(c) ==
    ~IsNone(c) /\ "artifact_service" \in DOMAIN c /\ c.artifact_service.reply = "raise"

\* the same context with another artifact service, or with none
WithReply(c, reply) == [c EXCEPT !.artifact_service = [reply |-> reply]]
WithoutService(c) == [k \in DOMAIN c \ {"artifact_service"} |-> c[k]]

(* C12: when the artifact service raises, the call returns what it returns *)
(* when the registration succeeds or no service is present: status success, *)
(* the same created and skipped lists and the same file content, which is   *)
(* written and stays written; artifact_ids is empty.                        *)
C12_ArtifactFailureAbsorbed ==
    [][(IsCall(args') /\ PassesValidation(args') /\ ServiceRaises(args'.tool_context))
       => LET fs == [dirs |-> dirs, files |-> files]
              a == args'
              without == define_dynamic_tools(fs, log, a.agent_name, a.tools, a.overwrite,
                                              WithoutService(a.tool_context))
              with == define_dynamic_tools(fs, log, a.agent_name, a.tools, a.overwrite,
                                           WithReply(a.tool_context, "artifact"))
          IN  without.result.status = "success" =>
                /\ result'.status = "success"
                /\ with.result.status = "success"
                /\ result'.created = without.result.created
                /\ result'.created = with.result.created
                /\ result'.skipped = without.result.skipped
                /\ result'.skipped = with.result.skipped
                /\ files' = without.files
                /\ files' = with.files
                /\ result'.py_file \in DOMAIN files'
                /\ result'.artifact_ids = <<>>
                /\ with.result.artifact_ids # <<>>]_vars

\* a call whose artifact service raised after the module text was written
C12_Witness ==
    /\ IsCall(args) /\ ServiceRaises(args.tool_context)
    /\ result.status = "success"
    /\ result.created # <<>>
    /\ result.artifact_ids = <<>>
    /\ log # <<>>
    /\ AsyncDefCount(files[result.py_file]) >= 1

\* the arguments pass the two checks of lines 173-176
PassesTopLevel(a) ==
    /\ ~IsNone(a.agent_name) /\ a.agent_name.str # <<>>
    /\ ~IsNone(a.tools) /\ a.tools.list # <<>>

\* caller p has returned status success
Returned(p) == result[p].pc = "done" /\ result[p].status = "success"

(* C13: the two concurrent invocations do not wait for each other: when     *)
(* both have returned success on the same module file, the file holds the   *)
(* full text one of them accumulated (the last write wins), and every name  *)
(* a caller reports in created has its block in that caller's own text; the *)
(* reports do not depend on what the file holds in the end, so the state    *)
(* where both report their function created and the file holds only one of  *)
(* the two blocks is reachable (the witness).                               *)
C13_LastWriteWins ==
    (Returned("p1") /\ Returned("p2") /\ result["p1"].py_file = result["p2"].py_file) =>
        /\ files[result["p1"].py_file] \in {result["p1"].text, result["p2"].text}
        /\ \A p \in Procs : \A i \in DOMAIN result[p].created :
              BlockCount(result[p].text, result[p].created[i]) >= 1

\* the lost update: both callers returned success, one with ping and the
\* other with echo in created, and the module file holds one of the two
\* blocks only
C13_Witness ==
    /\ Returned("p1") /\ Returned("p2")
    /\ result["p1"].py_file = result["p2"].py_file
    /\ result["p1"].created = <<N_ping>>
    /\ result["p2"].created = <<N_echo>>
    /\ BlockCount(files[result["p1"].py_file], N_ping)
         + BlockCount(files[result["p1"].py_file], N_echo) = 1

(* C14: an invocation that passes the two checks of its arguments writes    *)
(* tools.py exactly once: not before the last spec of the batch has been    *)
(* processed, and once by the time the artifact is registered and the call  *)
(* is over.                                                                 *)
C14_WrittenExactlyOnce ==
    \A p \in Procs :
        PassesTopLevel(args[p]) =>
            /\ result[p].pc \in {"validate", "mkdir", "load", "loop", "open", "write"}
                  => calls[p] = 0
            /\ result[p].pc \in {"artifact", "return", "done"} => calls[p] = 1

(* C15: each of the twelve domain tools returns a record with status        *)
(* "success" and never raises, for every well-typed combination of          *)
(* arguments, empty lists and zero counts included (total_tasks = 0,        *)
(* requirements = [], requirements_list = []).                              *)
C15_ToolsNeverRaise ==
    result.status # "none" => result.status = "success"

\* the value a result carries for a recognized key is that key's entry of
\* the table and no other key's entry
CarriesEntry(table, key, value) ==
    key \in DOMAIN table =>
        /\ value = table[key]
        /\ \A k \in DOMAIN table \ {key} : value # table[k]

(* C16: for every key of a lookup table of the domain tools (scale,          *)
(* system_type, project_type, budget, experience_level, role_type, the       *)
(* stakeholder groups of manage_stakeholders and of gather_requirements) the *)
(* result carries that key's entry of the table and not another key's; for   *)
(* the frequencies daily, weekly and bi-weekly the next communication is one *)
(* day, one week and two weeks ahead.                                        *)
C16_RecognizedKeys ==
    result.status = "success" =>
        /\ args.op = "create_architecture_diagram" =>
              /\ CarriesEntry(scale_recommendations, args.scale,
                              result.infrastructure_recommendations)
              /\ CarriesEntry(architecture_patterns, args.system_type,
                              result.recommended_patterns)
        /\ args.op = "recommend_technology_stack" =>
              /\ CarriesEntry(tech_stacks, args.project_type, result.recommended_stack)
              /\ CarriesEntry([k \in DOMAIN budget_considerations |->
                                  Str(budget_considerations[k])],
                              args.budget_constraints, result.budget_considerations)
        /\ args.op = "create_job_description" =>
              CarriesEntry(experience_requirements, args.experience_level,
                           [years |-> result.job_description.requirements.experience,
                            responsibilities |-> result.job_description.work_environment.team_structure,
                            autonomy |-> result.job_description.work_environment.autonomy_level])
        /\ args.op = "design_screening_process" =>
              CarriesEntry(assessment_templates, args.role_type, result.assessment_framework)
        /\ args.op = "manage_stakeholders" =>
              \A k \in DOMAIN result.communication_strategy :
                  LET plan == result.communication_strategy[k]
                  IN  /\ CarriesEntry(communication_templates, plan.stakeholder_group,
                                      [focus |-> plan.communication_focus,
                                       preferred_format |-> plan.recommended_format,
                                       frequency |-> plan.frequency,
                                       key_metrics |-> plan.key_metrics_to_share])
                      /\ args.communication_frequency = "daily" => plan.next_communication = 1
                      /\ args.communication_frequency = "weekly" => plan.next_communication = 7
                      /\ args.communication_frequency = "bi-weekly" => plan.next_communication = 14
        /\ args.op = "gather_requirements" =>
              \A g \in DOMAIN result.stakeholder_requirements :
                  CarriesEntry(stakeholder_needs, g, result.stakeholder_requirements[g])

\* every other week to the customers: the plan carries the Customers template
\* and a date two weeks ahead
C16_Witness ==
    /\ args.op = "manage_stakeholders"
    /\ args.communication_frequency = "bi-weekly"
    /\ result.status = "success"
    /\ \E k \in DOMAIN result.communication_strategy :
          /\ result.communication_strategy[k].stakeholder_group = "Customers"
          /\ result.communication_strategy[k].frequency = "Milestone-based"
          /\ result.communication_strategy[k].next_communication = 14

\* what the tables hold for a value they do not know, as the claim names it
DefaultsTo(table, key, default_key, value) ==
    key \notin DOMAIN table => value = table[default_key]

\* the tools that take an enum-like input
EnumTools ==
    {"create_architecture_diagram", "recommend_technology_stack", "create_job_description",
     "design_screening_process", "manage_stakeholders", "gather_requirements"}

(* C17: for an unrecognized value of an enum-like input (scale, system_type, *)
(* project_type, budget_constraints, experience_level, role_type,            *)
(* stakeholder group, communication_frequency) the tool returns status       *)
(* success and the field of the result holds the named default entry of the  *)
(* table (scale: medium; project_type: web_application; experience_level:    *)
(* mid-level; role_type: engineering; stakeholder group of                   *)
(* manage_stakeholders: Engineering; frequency: weekly), never an absent or  *)
(* empty value.                                                              *)
C17_UnrecognizedFallsBack ==
    (result.status # "none" /\ args.op \in EnumTools) =>
        /\ result.status = "success"
        /\ args.op = "create_architecture_diagram" =>
              /\ DefaultsTo(scale_recommendations, args.scale, "medium",
                            result.infrastructure_recommendations)
              /\ result.recommended_patterns # <<>>
        /\ args.op = "recommend_technology_stack" =>
              /\ DefaultsTo(tech_stacks, args.project_type, "web_application",
                            result.recommended_stack)
              /\ ~IsNone(result.budget_considerations)
        /\ args.op = "create_job_description" =>
              DefaultsTo(experience_requirements, args.experience_level, "mid-level",
                         [years |-> result.job_description.requirements.experience,
                          responsibilities |-> result.job_description.work_environment.team_structure,
                          autonomy |-> result.job_description.work_environment.autonomy_level])
        /\ args.op = "design_screening_process" =>
              DefaultsTo(assessment_templates, args.role_type, "engineering",
                         result.assessment_framework)
        /\ args.op = "manage_stakeholders" =>
              \A k \in DOMAIN result.communication_strategy :
                  LET plan == result.communication_strategy[k]
                  IN  /\ DefaultsTo(communication_templates, plan.stakeholder_group, "Engineering",
                                    [focus |-> plan.communication_focus,
                                     preferred_format |-> plan.recommended_format,
                                     frequency |-> plan.frequency,
                                     key_metrics |-> plan.key_metrics_to_share])
                      /\ args.communication_frequency \notin {"daily", "weekly", "bi-weekly"}
                            => plan.next_communication = 7
        /\ args.op = "gather_requirements" =>
              /\ DefaultsTo(functional_templates, args.project_type, "web_application",
                            [core |-> result.functional_requirements.core_features,
                             ui |-> result.functional_requirements.user_interface,
                             business |-> result.functional_requirements.business_logic,
                             integration |-> result.functional_requirements.integration])
              /\ \A g \in DOMAIN result.stakeholder_requirements :
                    result.stakeholder_requirements[g] # <<>>

(* C18: in the requirements tools every individual complexity score is an   *)
(* integer in 1..5, average_complexity lies in [1,5] for a non-empty list    *)
(* and is 0 for an empty one, the feasibility overall_score is never below   *)
(* 0.1 nor above 0.8, and every story_points value is in 1..13.              *)
C18_ScoresClamped ==
    result.status = "success" =>
        /\ args.op = "requirements_analyze_requirements" =>
              LET c == result.complexity_breakdown
                  avg == c.average_complexity
                  score == result.feasibility_assessment.overall_score
              IN  /\ \A k \in DOMAIN c.individual_scores : c.individual_scores[k] \in 1..5
                  /\ Len(c.individual_scores) = Len(args.requirements_list)
                  /\ args.requirements_list # <<>> =>
                        avg.den > 0 /\ avg.num >= avg.den /\ avg.num <= 5 * avg.den
                  /\ args.requirements_list = <<>> => avg.num = 0
                  /\ result.analysis_summary.complexity_score = avg
                  /\ ~FloatLess(score, 1)
                  /\ ~FloatGreater(score, 8)
                  /\ result.analysis_summary.feasibility_score = score
        /\ args.op = "create_user_stories" =>
              \A k \in DOMAIN result.user_stories : result.user_stories[k].story_points \in 1..13

\* a requirement whose terms add up to 7 is scored 5, in an analysis whose
\* feasibility every penalty but the one for a long list has lowered
C18_Witness ==
    /\ args.op = "requirements_analyze_requirements"
    /\ result.status = "success"
    /\ \E k \in DOMAIN args.requirements_list :
          /\ RawComplexity(args.requirements_list[k]) = 7
          /\ result.complexity_breakdown.individual_scores[k] = 5
    /\ result.feasibility_assessment.overall_score.tenths = 3

\* the attribute of a context is set: present, not None and not empty
IsSet(tool_context, attr) ==
    /\ ~IsNone(tool_context)
    /\ attr \in DOMAIN tool_context
    /\ ~IsNone(tool_context[attr])
    /\ tool_context[attr].path # <<>>

(* C19: the base directory is the context's app_base_path when that is set, *)
(* otherwise its component_base_path when that is set, otherwise the         *)
(* install-location fallback; app_base_path wins when both are set, and a    *)
(* context that is None or carries neither attribute, or carries them empty, *)
(* yields the fallback.  The target file is <base>/src/<slug>/tools.py.      *)
C19_FirstMatchWins ==
    result.status = "resolved" =>
        LET c == args.tool_context
        IN  /\ IsSet(c, "app_base_path") => result.base = Resolve(c.app_base_path.path)
            /\ (~IsSet(c, "app_base_path") /\ IsSet(c, "component_base_path"))
                  => result.base = Resolve(c.component_base_path.path)
            /\ (~IsSet(c, "app_base_path") /\ ~IsSet(c, "component_base_path"))
                  => result.base = Parents(ModuleFile, 2)
            /\ result.py_file
                  = result.base \o <<<<"s","r","c">>, AgentSlug(args.agent_name), <<"t","o","o","l","s",".","p","y">>>>

\* both attributes are set, to different directories, and the target file
\* lies under the application's, a relative path taken from the working
\* directory
C19_Witness ==
    /\ result.status = "resolved"
    /\ IsSet(args.tool_context, "app_base_path")
    /\ IsSet(args.tool_context, "component_base_path")
    /\ args.tool_context.app_base_path.path = <<"r","e","l","/","x">>
    /\ args.tool_context.component_base_path.path = <<"/","s","r","v","/","c","o","m","p">>
    /\ result.py_file = <<<<"w","o","r","k">>, <<"r","e","l">>, <<"x">>, <<"s","r","c">>, <<"d","a","t","a","_","b","o","t">>, <<"t","o","o","l","s",".","p","y">>>>

\* the text old stands unchanged at the start of the text new
IsPrefixText(old, new) ==
    /\ Len(new) >= Len(old)
    /\ \A k \in 1..(Len(old) - 1) : new[k] = old[k]
    /\ StartsWith(new[Len(old)], old[Len(old)])

(* C20: a call with overwrite=false that returns puts every valid-named     *)
(* spec whose function name the file already holds into skipped and not     *)
(* into created, and after any call with overwrite=false what the file held *)
(* before, the header and every block, stands unchanged and in the same     *)
(* order at the start of the file, new blocks following it.                 *)
C20_ExistingTextKept ==
    [][(/\ PassesValidation(args')
        /\ ~args'.overwrite
        /\ TargetFile(args') \in DOMAIN files)
       => LET old == files[TargetFile(args')]
              new == files'[TargetFile(args')]
          IN  /\ IsPrefixText(old, new)
              /\ result'.status = "success" =>
                    \A i \in DOMAIN args'.tools.list :
                       LET spec == args'.tools.list[i]
                       IN  (ValidNamed(spec) /\ BlockCount(old, spec.function_name) >= 1)
                              => /\ spec.function_name \in Range(result'.skipped)
                                 /\ spec.function_name \notin Range(result'.created)]_vars

\* the lines of a module text, which ends with a line break
LinesOf(text) == SubSeq(text, 1, Len(text) - 1)

\* the positions of the top-level "async def" lines of a text
DefLines(text) == {k \in DOMAIN LinesOf(text) : StartsWith(text[k], <<"a","s","y","n","c"," ","d","e","f"," ">>)}

\* everything before the first function block
HeaderOf(text) ==
    LET at == DefLines(text)
    IN  IF at = {} THEN LinesOf(text)
        ELSE SubSeq(text, 1, (CHOOSE k \in at : \A j \in at : k <= j) - 1)

\* the block that starts at the definition line k: up to, and without, the
\* next top-level "async def" line, or up to the end of the text
BlockAt(text, k) ==
    LET at == DefLines(text)
        later == {j \in at : j > k}
    IN  IF later = {} THEN SubSeq(text, k, Len(text) - 1)
        ELSE SubSeq(text, k, (CHOOSE j \in later : \A i \in later : j <= i) - 1)

\* the blocks of the names in names, in the order they stand in the text
BlocksOf(text, names) ==
    LET defs == DefLines(text)
        IsOf(k) == k \in defs /\ \E f \in names : IsDefLineOf(text[k], f)
        at == SelectSeq([k \in DOMAIN text |-> k], IsOf)
    IN  [n \in DOMAIN at |-> BlockAt(text, at[n])]

\* the text ends with the lines of block
EndsWithBlock(text, block) ==
    /\ Len(text) >= Len(block)
    /\ SubSeq(text, Len(text) - Len(block) + 1, Len(text)) = block

(* C21: a call with overwrite=true that returns, for a batch of valid-named *)
(* specs with distinct names, removes of the file exactly the blocks of the *)
(* names it brings: the header and the blocks of all other names stand as   *)
(* before and in the same order, every name of the batch has one block, and *)
(* the freshly rendered block of the last spec ends the file.               *)
C21_OverwriteRemovesOnlyTheBlock ==
    [][(/\ PassesValidation(args')
        /\ args'.overwrite
        /\ result'.status = "success"
        /\ TargetFile(args') \in DOMAIN files
        /\ \A i \in DOMAIN args'.tools.list : ValidNamed(args'.tools.list[i])
        /\ DistinctNames(args'.tools.list))
       => LET old == files[TargetFile(args')]
              new == files'[TargetFile(args')]
              batch == args'.tools.list
              others == FunctionNames \ Range(NamesOf(batch))
          IN  /\ HeaderOf(new) = HeaderOf(old)
              /\ BlocksOf(new, others) = BlocksOf(old, others)
              /\ \A i \in DOMAIN batch : BlockCount(new, batch[i].function_name) = 1
              /\ EndsWithBlock(new, _render_function_block(batch[Len(batch)]).val)]_vars

(* C22: whatever a call on an existing tools.py does (any overwrite flag,   *)
(* any spelling of the agent name with the same slug, returning or          *)
(* raising), the header of the file, everything before its first function   *)
(* block, is afterwards what it was before: only the call that finds the    *)
(* file absent writes a header.                                             *)
C22_HeaderWrittenOnce ==
    [][(/\ PassesValidation(args')
        /\ TargetFile(args') \in DOMAIN files)
       => /\ TargetFile(args') \in DOMAIN files'
          /\ HeaderOf(files'[TargetFile(args')]) = HeaderOf(files[TargetFile(args')])]_vars

\* the five phases and their shares of the duration, in hundredths
PhaseShares ==
    <<<<"Planning & Discovery", 15>>, <<"Design & Architecture", 20>>, <<"Development", 45>>,
      <<"Testing & QA", 15>>, <<"Deployment & Launch", 5>>>>

\* max(1, floor(duration_weeks x share))
PhaseWeeks(duration_weeks, k) ==
    LET weeks == (duration_weeks * PhaseShares[k][2]) \div 100
    IN  IF weeks > 1 THEN weeks ELSE 1

\* the phases of a plan: the five names in order, each as long as its share
\* says and at least a week, each starting where the one before it ends, the
\* first at the start date, the last ending at the estimated end date
PlanIsChained(duration_weeks, plan) ==
    LET ph == plan.project_phases
    IN  /\ Len(ph) = 5
        /\ \A k \in 1..5 :
              /\ ph[k].phase = PhaseShares[k][1]
              /\ ph[k].duration_weeks = PhaseWeeks(duration_weeks, k)
              /\ ph[k].duration_weeks >= 1
              /\ ph[k].start_date = IF k = 1 THEN plan.project_overview.start_date
                                    ELSE ph[k - 1].end_date
              /\ ph[k].end_date = ph[k].start_date + 7 * ph[k].duration_weeks
        /\ plan.project_overview.estimated_end_date
              = plan.project_overview.start_date
                + 7 * SumSeq([k \in 1..5 |-> ph[k].duration_weeks])

(* C23: create_project_plan yields, for every integer duration_weeks, the   *)
(* five phases in their fixed order, each of max(1, floor(duration_weeks x  *)
(* share)) weeks, the first starting at the start date, each later one      *)
(* where the one before ends, and estimated_end_date is the start date plus *)
(* the sum of the phase durations in weeks.                                 *)
C23_PhasesChained ==
    (args.op = "create_project_plan" /\ result.status # "none")
        => /\ result.status = "success"
           /\ PlanIsChained(args.duration_weeks, result)

\* the pairs of positions i < j whose requirements oppose each other under
\* some pattern
ConflictingPairs(requirements) ==
    {pr \in (DOMAIN requirements) \X (DOMAIN requirements) :
        /\ pr[1] < pr[2]
        /\ \E k \in DOMAIN conflict_patterns :
              Conflicting(requirements[pr[1]], requirements[pr[2]], k)}

\* the entries of conflicts that came from the pair of positions i, j
EntriesOf(conflicts, i, j) ==
    {k \in DOMAIN conflicts : conflicts[k].position_1 = i /\ conflicts[k].position_2 = j}

(* C24: in the conflicts that analyze_requirements reports, every pair of   *)
(* positions i < j has at most one entry, no pair is reported in both       *)
(* orders, and conflict_count, in conflict_identification and in the        *)
(* summary, is the number of conflicting pairs.                             *)
C24_OneEntryPerPair ==
    (args.op = "requirements_analyze_requirements" /\ result.status = "success")
        => LET conflicts == result.conflict_identification.conflicts
               n == Len(args.requirements_list)
           IN  /\ \A i, j \in 1..n : Cardinality(EntriesOf(conflicts, i, j)) <= 1
               /\ \A k \in DOMAIN conflicts : conflicts[k].position_1 < conflicts[k].position_2
               /\ result.conflict_identification.conflict_count
                     = Cardinality(ConflictingPairs(args.requirements_list))
               /\ result.analysis_summary.conflict_count
                     = Cardinality(ConflictingPairs(args.requirements_list))

(* C25: a function name that has a block in a tools.py still has one after  *)
(* every later invocation, whatever its batch and overwrite flag and        *)
(* whether it returns or raises.                                            *)
C25_NamesNeverDisappear ==
    [][\A p \in DOMAIN files :
          p.file = "tools.py" =>
             /\ p \in DOMAIN files'
             /\ \A f \in FunctionNames :
                   BlockCount(files[p], f) >= 1 => BlockCount(files'[p], f) >= 1]_vars

\* a second call, with overwrite=true, has replaced the block of ping in a
\* file that held a block of echo after it, and the block of echo is there
C25_Witness ==
    /\ calls = 2
    /\ IsCall(args) /\ args.overwrite
    /\ result.status = "success"
    /\ result.created = <<N_ping>> /\ result.skipped = <<>>
    /\ BlockCount(files[result.py_file], N_echo) = 1
    /\ BlockCount(files[result.py_file], N_ping) = 1

\* a batch of two valid-named specs that bring the same name
SameNameTwice(batch) ==
    /\ Len(batch) = 2
    /\ ValidNamed(batch[1]) /\ ValidNamed(batch[2])
    /\ batch[1].function_name = batch[2].function_name

(* C26: a batch that brings a valid name twice leaves one block for it in   *)
(* the file.  With overwrite=false and the name not yet in the file the     *)
(* first spec's rendering is written and the second spec is skipped, the    *)
(* name being in created and in skipped; with overwrite=true the last       *)
(* spec's rendering is in the file and the name is twice in created.        *)
C26_SameNameTwice ==
    [][(/\ PassesValidation(args')
        /\ SameNameTwice(args'.tools.list)
        /\ AgentSlug(args'.agent_name.str) # <<>>)
       => LET batch == args'.tools.list
              f == batch[1].function_name
              p == TargetFile(args')
              fresh == p \notin DOMAIN files \/ BlockCount(files[p], f) = 0
          IN  /\ result'.status = "success"
              /\ (~args'.overwrite /\ fresh) =>
                    /\ result'.created = <<f>>
                    /\ result'.skipped = <<f>>
                    /\ BlockCount(files'[p], f) = 1
                    /\ EndsWithBlock(files'[p], _render_function_block(batch[1]).val)
              /\ args'.overwrite =>
                    /\ result'.created = <<f, f>>
                    /\ result'.skipped = <<>>
                    /\ BlockCount(files'[p], f) = 1
                    /\ EndsWithBlock(files'[p], _render_function_block(batch[2]).val)]_vars

\* the band of a velocity in hundredths: critical [0, 0.6), concerning
\* [0.6, 0.75), good [0.75, 0.9), excellent [0.9, 1.0]
BandOf(v) ==
    IF v < 60 THEN "critical"
    ELSE IF v < 75 THEN "concerning"
    ELSE IF v < 90 THEN "good"
    ELSE "excellent"

(* C27: track_project_progress gives every team_velocity on the scale from  *)
(* 0.0 to 1.0, the band boundaries and 1.0 itself among them, the rating of *)
(* the band that holds it.                                                  *)
C27_VelocityBands ==
    (/\ args.op = "track_project_progress"
     /\ result.status = "success"
     /\ args.team_velocity \in 0..100)
        => result.current_status.velocity_rating = BandOf(args.team_velocity)

(* C28: design_screening_process returns as many stage records as the       *)
(* total_stages it reports, numbered 1..total_stages in order.               *)
C28_StagesMatchTotal ==
    (args.op = "design_screening_process" /\ result.status = "success")
        => LET process == result.interview_process
           IN  /\ Len(process.stages) = process.total_stages
               /\ \A k \in DOMAIN process.stages : process.stages[k].stage = k

\* the fixed order of the roles
RoleOrder ==
    <<"Tech Lead", "Developer", "Designer", "Product Manager", "QA Engineer",
      "DevOps Engineer", "Data Analyst", "Security Engineer", "Technical Writer",
      "Scrum Master">>

(* C29: for a team_size of 0 or more, team_composition lists at most         *)
(* team_size roles, and they are the first roles of the fixed order.         *)
C29_RolesWithinTeamSize ==
    (/\ args.op = "create_project_plan"
     /\ result.status = "success"
     /\ args.team_size >= 0)
        => LET roles == result.resource_allocation.team_composition
           IN  /\ Len(roles) <= args.team_size
               /\ Len(roles) <= Len(RoleOrder)
               /\ roles = SubSeq(RoleOrder, 1, Len(roles))

(* C30: for a duration_weeks of 5 or more the durations of the five phases   *)
(* add up to total_duration_weeks, and estimated_end_date is the start date  *)
(* plus duration_weeks weeks.                                                *)
C30_PhasesAddUp ==
    (/\ args.op = "create_project_plan"
     /\ result.status = "success"
     /\ args.duration_weeks >= 5)
        => LET ph == result.project_phases
               overview == result.project_overview
           IN  /\ SumSeq([k \in DOMAIN ph |-> ph[k].duration_weeks]) = overview.total_duration_weeks
               /\ overview.total_duration_weeks = args.duration_weeks
               /\ overview.estimated_end_date = overview.start_date + 7 * args.duration_weeks

====
